---- MODULE Spec2Model ----
(***************************************************************************)
(* A model of install-grub: the menu builder stages kernels under          *)
(* <boot_path>/kernels (Builder::entries), then Builder::install writes    *)
(* grub.cfg.tmp, runs the helpers, renames the file into place, removes    *)
(* obsolete kernels and reconciles <boot_path>/grub/state with the desired *)
(* configuration to decide whether grub-install has to run.                *)
(***************************************************************************)
EXTENDS Naturals, Sequences, FiniteSets, TLC

\* ------------------------------------------------------------------ bounds

MaxDevices == 2
MaxEntries == 2
MaxUpdDevices == 2
MaxLinks == 3

\* ------------------------------------------------------- options and sets

\* Option<T>: None is the empty sequence, Some(v) the sequence of v alone.
None == <<>>
Some(v) == <<v>>
IsSome(o) == o # <<>>
Unwrap(o) == o[1]

SetOf(s) == {s[i] : i \in DOMAIN s}

SeqsUpTo(S, n) == UNION {[1..k -> S] : k \in 0..n}

\* HashSet::is_disjoint
IsDisjoint(a, b) == a \cap b = {}

RECURSIVE JoinWith(_, _)
\* [String]::join(sep) on a sequence of strings
JoinWith(s, sep) ==
    IF s = <<>> THEN ""
    ELSE IF Len(s) = 1 THEN s[1]
    ELSE s[1] \o sep \o JoinWith(Tail(s), sep)

\* ---------------------------------------------------- the target matrix

EfiTargetOf(tag, bios, bios_target, efi, efi_target) ==
    [tag |-> tag, bios |-> bios, bios_target |-> bios_target,
     efi |-> efi, efi_target |-> efi_target]

\* A deduce without the arm that rejects two packages whose targets are not
\* both set: the BIOS package alone is then installed
DeduceNoTargetCheck(c) ==
    IF IsSome(c.grub) /\ IsSome(c.grub_efi)
       /\ IsSome(c.grub_target) /\ IsSome(c.grub_target_efi)
    THEN EfiTargetOf("Both", c.grub, c.grub_target, c.grub_efi, c.grub_target_efi)
    ELSE IF IsSome(c.grub)
    THEN EfiTargetOf("BiosOnly", c.grub, None, None, None)
    ELSE IF IsSome(c.grub_efi) /\ IsSome(c.grub_target_efi)
    THEN EfiTargetOf("EfiOnly", None, None, c.grub_efi, c.grub_target_efi)
    ELSE IF IsSome(c.grub_efi)
    THEN EfiTargetOf("Error", None, None, None, None)
    ELSE EfiTargetOf("Neither", None, None, None, None)

\* EfiTarget::deduce: the match on (grub, grub_efi, grub_target,
\* grub_target_efi), arm by arm; "Error" stands for the bail!s.
Deduce(c) ==
    IF IsSome(c.grub) /\ IsSome(c.grub_efi)
       /\ IsSome(c.grub_target) /\ IsSome(c.grub_target_efi)
    THEN EfiTargetOf("Both", c.grub, c.grub_target, c.grub_efi, c.grub_target_efi)
    ELSE IF IsSome(c.grub) /\ IsSome(c.grub_efi)
    THEN EfiTargetOf("Error", None, None, None, None)
    ELSE IF IsSome(c.grub)
    THEN EfiTargetOf("BiosOnly", c.grub, None, None, None)
    ELSE IF IsSome(c.grub_efi) /\ IsSome(c.grub_target_efi)
    THEN EfiTargetOf("EfiOnly", None, None, c.grub_efi, c.grub_target_efi)
    ELSE IF IsSome(c.grub_efi)
    THEN EfiTargetOf("Error", None, None, None, None)
    ELSE EfiTargetOf("Neither", None, None, None, None)

\* EfiTarget::efi: the EFI package and its target, if any
EfiOf(t) ==
    IF t.tag \in {"Both", "EfiOnly"}
    THEN Some([pkg |-> Unwrap(t.efi), target |-> Unwrap(t.efi_target)])
    ELSE None

\* EfiTarget::bios: the BIOS package and its optional target, if any
BiosOf(t) ==
    IF t.tag = "Both"
    THEN Some([pkg |-> Unwrap(t.bios), target |-> t.bios_target])
    ELSE IF t.tag = "BiosOnly"
    THEN Some([pkg |-> Unwrap(t.bios), target |-> None])
    ELSE None

\* EfiTarget::to_str
ToStr(t) ==
    CASE t.tag = "Both" -> "both"
      [] t.tag = "BiosOnly" -> "no"
      [] t.tag = "EfiOnly" -> "only"
      [] OTHER -> "neither"

\* ------------------------------------------------------ the state record

\* struct GrubState (without its path) and its Default
GrubStateOf(name, version, efi, devices, mount, args) ==
    [name |-> name, version |-> version, efi |-> efi, devices |-> devices,
     efi_mount_point |-> mount, extra_grub_install_args |-> args]

DefaultGrubState == GrubStateOf("", "", "", <<>>, "", <<>>)

\* The sixth line of the state file: absent, empty, a JSON object with the
\* extraGrubInstallArgs it carries, or text that is no JSON object.
JsonLine(kind, args) == [kind |-> kind, args |-> args]

\* A state file: kind is "missing", "short" (fewer than five lines),
\* "partial" (cut while being written) or "record". The fourth line is kept
\* as the sequence of its comma-separated fields.
StateFileOf(kind, name, version, efi, devices, mount, json) ==
    [kind |-> kind, name |-> name, version |-> version, efi |-> efi,
     devices |-> devices, efi_mount_point |-> mount, json |-> json]

NoStateFile == StateFileOf("missing", "", "", "", <<>>, "", JsonLine("none", <<>>))

\* devices.join(","): the fields of the line written; the empty list gives
\* the empty line, whose only field is the empty string.
JoinDevices(devices) == IF devices = <<>> THEN <<"">> ELSE devices

\* line.split(','): one path per field
SplitDevices(fields) == fields

\* A parse that asks for the sixth line as it asks for the first five
ParseSixLines(file) ==
    IF file.kind \in {"missing", "short", "partial"} THEN None
    ELSE IF file.json.kind \in {"invalid", "none"} THEN None
    ELSE Some(GrubStateOf(file.name, file.version, file.efi,
                          SplitDevices(file.devices), file.efi_mount_point,
                          IF file.json.kind = "empty" THEN <<>>
                          ELSE file.json.args))

\* GrubState::parse: None for a file that cannot be opened, has fewer than
\* five lines or whose sixth line is no JSON object.
Parse(file) ==
    IF file.kind \in {"missing", "short", "partial"} THEN None
    ELSE IF file.json.kind = "invalid" THEN None
    ELSE Some(GrubStateOf(file.name, file.version, file.efi,
                          SplitDevices(file.devices), file.efi_mount_point,
                          IF file.json.kind \in {"none", "empty"} THEN <<>>
                          ELSE file.json.args))

\* GrubState::load: parse(..).unwrap_or_default()
Load(file) == IF IsSome(Parse(file)) THEN Unwrap(Parse(file)) ELSE DefaultGrubState

\* The six lines GrubState::save writes to <path>.tmp
SaveContent(gs) ==
    StateFileOf("record", gs.name, gs.version, gs.efi, JoinDevices(gs.devices),
                gs.efi_mount_point, JsonLine("object", gs.extra_grub_install_args))

\* An update whose test of the two lists is "not equal" instead of the
\* "not disjoint" of the source, and which then records the desired lists
UpdateEq(gs, c, t) ==
    LET devs == SetOf(gs.devices) # SetOf(c.devices)
        args == SetOf(gs.extra_grub_install_args) # SetOf(c.extra_grub_install_args)
    IN  [dirty |-> devs \/ args \/ c.full_name # gs.name
                   \/ c.full_version # gs.version \/ ToStr(t) # gs.efi
                   \/ c.efi_sys_mount_point # gs.efi_mount_point,
         state |-> GrubStateOf(c.full_name, c.full_version, ToStr(t),
                               IF devs THEN c.devices ELSE gs.devices,
                               c.efi_sys_mount_point,
                               IF args THEN c.extra_grub_install_args
                               ELSE gs.extra_grub_install_args)]

\* GrubState::update: the six tests in the order of the source, each
\* overwriting its field; the result is the dirty flag and the new record.
Update(gs, c, t) ==
    LET devs == ~IsDisjoint(SetOf(c.devices), SetOf(gs.devices))
        args == ~IsDisjoint(SetOf(c.extra_grub_install_args),
                            SetOf(gs.extra_grub_install_args))
        name == c.full_name # gs.name
        version == c.full_version # gs.version
        efi == ToStr(t) # gs.efi
        mount == c.efi_sys_mount_point # gs.efi_mount_point
    IN  [dirty |-> devs \/ args \/ name \/ version \/ efi \/ mount,
         state |-> GrubStateOf(
             IF name THEN c.full_name ELSE gs.name,
             IF version THEN c.full_version ELSE gs.version,
             IF efi THEN ToStr(t) ELSE gs.efi,
             IF devs THEN c.devices ELSE gs.devices,
             IF mount THEN c.efi_sys_mount_point ELSE gs.efi_mount_point,
             IF args THEN c.extra_grub_install_args
             ELSE gs.extra_grub_install_args)]

\* ------------------------------------------------------------ the inputs

Devices == {"nodev", "/dev/sda", "/dev/sdb"}
DevSeqs == SeqsUpTo(Devices, MaxDevices)
ArgSeqs == {<<>>, <<"--modules=part_gpt">>}
Versions == {"24.05", "24.11"}

\* struct Config, with the fields the install driver and the reconciler read
ConfigOf(g, gt, ge, gte, devices, args, version, prober, prepare) ==
    [grub |-> g, grub_target |-> gt, grub_efi |-> ge,
     grub_target_efi |-> gte, devices |-> devices,
     extra_grub_install_args |-> args, full_name |-> "NixOS",
     full_version |-> version, efi_sys_mount_point |-> "/boot/efi",
     use_os_prober |-> prober, extra_prepare_config |-> prepare,
     default_entry |-> "0", force_install |-> FALSE,
     can_touch_efi_variables |-> TRUE, efi_install_as_removable |-> FALSE,
     bootloader_id |-> "NixOS-boot", font |-> "/nix/store/grub/unicode.pf2",
     splash_image |-> None, theme |-> None]

OptGrub == {None, Some("/nix/store/grub")}
OptGrubTarget == {None, Some("i386-pc")}
OptGrubEfi == {None, Some("/nix/store/grub-efi")}
OptGrubTargetEfi == {None, Some("x86_64-efi")}

Configs ==
    {ConfigOf(g, gt, ge, gte, d, a, v, p, "") :
        g \in OptGrub, gt \in OptGrubTarget, ge \in OptGrubEfi,
        gte \in OptGrubTargetEfi, d \in DevSeqs, a \in {<<>>},
        v \in {"24.11"}, p \in BOOLEAN}

\* Config::save_default
SaveDefault(c) == c.default_entry = "saved"

\* The name of a store path under kernels/: its '/' replaced by '-'
Mangle(path) == JoinWith(path, "-")

\* A generation directory: kernel, initrd and xen.gz are the store paths
\* (relative to /nix/store, as components) their links resolve to, None when
\* the link does not exist; hook tells whether append-initrd-secrets is an
\* executable file, name is the file name of the canonical path of the
\* directory, specs are the directories under specialisation/, sorted.
GenerationOf(kernel, initrd, xen) ==
    [kernel |-> kernel, initrd |-> initrd, xen |-> xen,
     hook |-> FALSE, specs |-> <<>>,
     name |-> IF IsSome(kernel) THEN "sys-" \o Mangle(Unwrap(kernel)) ELSE "sys-none"]

Gen1 == GenerationOf(Some(<<"aaa-linux-6.6", "bzImage">>),
                     Some(<<"bbb-initrd", "initrd">>), None)
Gen2 == GenerationOf(Some(<<"ccc-linux-6.1", "bzImage">>),
                     Some(<<"bbb-initrd", "initrd">>),
                     Some(<<"ddd-xen", "boot", "xen.gz">>))
GenNoKernel == GenerationOf(None, Some(<<"bbb-initrd", "initrd">>), None)

\* A generation with an executable append-initrd-secrets
GenHook == [Gen1 EXCEPT !.hook = TRUE, !.name = "eee-nixos-system-24.11"]

\* An older generation with the hook and one specialisation that has it too
GenOld ==
    [Gen1 EXCEPT !.hook = TRUE, !.name = "fff-nixos-system-24.05",
                 !.specs = <<[Gen1 EXCEPT !.hook = TRUE,
                                          !.name = "ggg-nixos-system-24.05"]>>]

\* One call of add_entry: the generation directory and the flag current;
\* of_current tells whether the call is made for the default configuration
\* (by the add_generation of append_default_entries) or for a generation of
\* a profile (by the add_generation of add_profile).
EntryCall(gen, current, of_current) ==
    [gen |-> gen, current |-> current, of_current |-> of_current]

\* The add_entry calls of add_generation(path, current): one for the
\* directory, with the flag it was given, then one for each specialisation,
\* with the flag true.
AddGeneration(gen, current) ==
    <<EntryCall(gen, current, current)>>
    \o [i \in 1..Len(gen.specs) |-> EntryCall(gen.specs[i], TRUE, current)]

RECURSIVE AddGenerations(_)
AddGenerations(gens) ==
    IF gens = <<>> THEN <<>>
    ELSE AddGeneration(Head(gens), FALSE) \o AddGenerations(Tail(gens))

\* The add_entry calls of Builder::entries: add_generation of the default
\* configuration, then of the generations add_profile selected, in order
Entries(default, generations) ==
    AddGeneration(default, TRUE) \o AddGenerations(generations)

\* ------------------------------------------------------------- the files

\* A file of <boot_path>/kernels: its name, and whether its content is whole
KernelFile(name, whole) == [name |-> name, whole |-> whole]

Exists(dir, name) == \E f \in dir : f.name = name

\* The text of grub.cfg or grub.cfg.tmp: the menu entries written, whether
\* the buffer was written to its end, and what 30_os-prober appended.
CfgOf(menu, complete, prober) == [menu |-> menu, complete |-> complete, prober |-> prober]

NoFile == CfgOf(<<>>, FALSE, "nofile")

\* The name of the directory <boot_path>/kernels among the files of <boot_path>
KernelsDir == "kernels"

\* A GRUB-visible path: the search root and the path below it
GrubPath(root, rel) == [root |-> root, rel |-> rel]

\* One emitted menuentry: the paths of its linux/initrd (or multiboot/module) lines
EntryOf(kernel, initrd, xen, secrets) ==
    [kernel |-> kernel, initrd |-> initrd, xen |-> xen, secrets |-> secrets]

\* The grub.cfg of an earlier activation, whose kernel is still in kernels/
OldKernel == "old-linux-5.15-bzImage"
OldCfg ==
    CfgOf(<<EntryOf(GrubPath("boot", "kernels/" \o OldKernel),
                    GrubPath("boot", "kernels/" \o OldKernel), None, None)>>,
          TRUE, "none")

\* ---------------------------------------------------------------- state

VARIABLES
    config,        \* Builder.config
    dry_run,       \* Builder.dry_run
    grub_store,    \* Builder.grub_store: Some(GRUB path of the store) or None
    todo,          \* the calls of add_entry that entries() makes, in order
    pc,            \* the position of the run
    ei,            \* the index in todo of the entry being added
    part,          \* the file of that entry being staged
    cur,           \* the GRUB paths add_entry has got for kernel, initrd, xen
    inner,         \* Builder.inner: the menu buffer
    copied,        \* Builder.copied: the names kept under kernels/
    efi_target,    \* the target matrix deduced by install
    grub_state,    \* the GrubState loaded and updated by install
    dirty,         \* what GrubState::update returned
    di,            \* the index of the device install_bios is at
    log,           \* the processes this run has started, in order
    prev,          \* how the run before this one ended
    pre,           \* grub.cfg and the state file as the run found them
    grub_cfg,      \* <boot_path>/grub/grub.cfg
    grub_cfg_tmp,  \* <boot_path>/grub/grub.cfg.tmp
    state_file,    \* <boot_path>/grub/state
    state_tmp,     \* <boot_path>/grub/state.tmp
    kernels,       \* the files of <boot_path>/kernels
    boot_misc,     \* the other files of <boot_path>: font, background, theme/, kernels/
    mask,          \* the file-creation mask of the process
    call           \* the arguments and result of a function applied on its own

inputs == <<config, dry_run, grub_store, todo>>
disk == <<grub_cfg, grub_cfg_tmp, state_file, state_tmp, kernels>>
staging == <<ei, part, cur, inner, copied>>
installing == <<efi_target, grub_state, dirty, di>>
env == <<boot_misc, mask>>
vars == <<inputs, pc, staging, installing, log, prev, pre, env, disk, call>>

NoCall == [fn |-> "none"]
NoEntry == EntryOf(None, None, None, None)
NoTarget == EfiTargetOf("Unset", None, None, None, None)

\* The in-memory state of a Builder that main has just constructed
FreshBuilder ==
    /\ pc = "font"
    /\ ei = 1
    /\ part = "kernel"
    /\ cur = NoEntry
    /\ inner = <<>>
    /\ copied = {}
    /\ efi_target = NoTarget
    /\ grub_state = DefaultGrubState
    /\ dirty = FALSE
    /\ di = 1
    /\ log = <<>>

Terminal == {"done", "failed", "panicked", "crashed"}
Reruns == {"done"}

\* A process the run started: the program ("grub-install-bios" and
\* "grub-install-efi" are the grub-install of the two packages), the package
\* it belongs to, the device (BIOS only), its arguments and its exit status.
Invocation(prog, pkg, dev, args, status) ==
    [prog |-> prog, pkg |-> pkg, dev |-> dev, args |-> args, status |-> status]

ExitCodes == {0, 1}

\* --------------------------------------------- appearance (appearance.rs)

\* One block of the menu buffer that is not a menuentry
BlockOf(block, path) == [block |-> block, path |-> path]

\* Path::extension of a path given as <<stem>> or <<stem, extension>>
Extension(path) == IF Len(path) = 2 THEN Some(path[2]) ELSE None

\* The module append_splash loads for an extension
SplashModule(ext) == IF ext = "jpg" THEN "jpeg" ELSE ext

\* One entry of a walk: its path under the theme, its extension, its kind
WalkEntry(rel, ext, is_file) == [rel |-> rel, ext |-> ext, is_file |-> is_file]

\* The files a theme directory may hold
ThemeFiles ==
    <<WalkEntry("theme.txt", "txt", TRUE), WalkEntry("font.pf2", "pf2", TRUE),
      WalkEntry("background.png", "png", TRUE), WalkEntry("logo.jpg", "jpg", TRUE),
      WalkEntry("icon.jpeg", "jpeg", TRUE), WalkEntry("select.png", "png", TRUE)>>

\* What WalkDir::new(theme) yields: the directory itself first, then its files
ThemeEntries(theme) == <<WalkEntry("", "", FALSE)>> \o SubSeq(ThemeFiles, 1, 4)

\* The module append_theme loads for an extension, if any
ModuleFor(ext) ==
    IF ext = "png" THEN Some("png")
    ELSE IF ext \in {"jpeg", "jpg"} THEN Some("jpeg")
    ELSE None

\* modules_to_load after the walk: a HashSet
ModulesToLoad(walk) ==
    {Unwrap(ModuleFor(walk[i].ext)) : i \in {j \in DOMAIN walk : IsSome(ModuleFor(walk[j].ext))}}

\* fonts after the walk: the .pf2 files in the order of the walk
FontsOf(walk) ==
    LET IsFont(e) == e.ext = "pf2"
        fonts == SelectSeq(walk, IsFont)
    IN  [i \in DOMAIN fonts |-> fonts[i].rel]

\* The orders in which the elements of a HashSet may be iterated: the hasher
\* of a HashSet is seeded at random in every process
IterationOrders(S) ==
    {o \in [1..Cardinality(S) -> S] : \A i, j \in DOMAIN o : i # j => o[i] # o[j]}

\* The text append_theme writes: one insmod per module in the order of the
\* iteration, set theme, one loadfont per font
ThemeBlock(order, fonts) ==
    [block |-> "theme", path |-> GrubPath("boot", "theme/theme.txt"),
     modules |-> order, fonts |-> fonts]

\* append_font: the font is copied to <boot_path>/converted-font.pf2 unless
\* the run is dry, and the loadfont block is written
AppendFont ==
    /\ pc = "font"
    /\ \/ /\ boot_misc' = IF dry_run THEN boot_misc
                           ELSE boot_misc \cup {"converted-font.pf2"}
          /\ inner' = Append(inner, BlockOf("font", GrubPath("boot", "convert-font.pf2")))
          /\ pc' = "splash"
       \/ /\ ~dry_run
          /\ pc' = "failed"
          /\ UNCHANGED <<boot_misc, inner>>
    /\ UNCHANGED <<inputs, ei, part, cur, copied, installing, log, prev, pre,
                   mask, disk, call>>

\* append_splash: nothing without a splash image; an image without an
\* extension is an error; the image is copied to <boot_path>/background.<ext>
\* unless the run is dry, and the background_image block is written
AppendSplash ==
    /\ pc = "splash"
    /\ IF config.splash_image = None
       THEN /\ pc' = "theme"
            /\ UNCHANGED <<boot_misc, inner>>
       ELSE IF Extension(Unwrap(config.splash_image)) = None
       THEN /\ pc' = "failed"
            /\ UNCHANGED <<boot_misc, inner>>
       ELSE LET ext == SplashModule(Unwrap(Extension(Unwrap(config.splash_image))))
                target == "background." \o ext
            IN  \/ /\ boot_misc' = IF dry_run THEN boot_misc
                                    ELSE boot_misc \cup {target}
                   /\ inner' = Append(inner, BlockOf("splash", GrubPath("boot", target)))
                   /\ pc' = "theme"
                \/ /\ ~dry_run
                   /\ pc' = "failed"
                   /\ UNCHANGED <<boot_misc, inner>>
    /\ UNCHANGED <<inputs, ei, part, cur, copied, installing, log, prev, pre,
                   mask, disk, call>>

\* An append_theme that cleans the theme directory in a dry run too
AppendThemeAlways ==
    /\ pc = "theme"
    /\ boot_misc' = boot_misc \ {"theme"}
    /\ pc' = IF config.theme = None \/ dry_run THEN "add_entry" ELSE "failed"
    /\ inner' = IF config.theme # None /\ dry_run
                THEN Append(inner, BlockOf("theme", GrubPath("boot", "theme/theme.txt")))
                ELSE inner
    /\ UNCHANGED <<inputs, ei, part, cur, copied, installing, log, prev, pre,
                   mask, disk, call>>

\* append_theme: outside a dry run <boot_path>/theme is removed when it
\* exists; without a theme that is all. With one, every entry of the walk is
\* copied into <boot_path>/theme unless the run is dry: fs::copy refuses the
\* first entry, which is the theme directory itself. A dry run writes the
\* theme block, its modules in the order in which the HashSet yields them.
AppendTheme ==
    /\ pc = "theme"
    /\ LET removed == IF dry_run THEN boot_misc ELSE boot_misc \ {"theme"}
       IN  IF config.theme = None
           THEN /\ boot_misc' = removed
                /\ pc' = "add_entry"
                /\ inner' = inner
           ELSE IF ~dry_run /\ \E i \in DOMAIN ThemeEntries(Unwrap(config.theme)) :
                                  ~ThemeEntries(Unwrap(config.theme))[i].is_file
           THEN /\ boot_misc' = removed
                /\ pc' = "failed"
                /\ inner' = inner
           ELSE /\ boot_misc' = IF dry_run THEN boot_misc ELSE removed \cup {"theme"}
                /\ \E order \in IterationOrders(ModulesToLoad(ThemeEntries(Unwrap(config.theme)))) :
                       inner' = Append(inner, ThemeBlock(order,
                                           FontsOf(ThemeEntries(Unwrap(config.theme)))))
                /\ pc' = "add_entry"
    /\ UNCHANGED <<inputs, ei, part, cur, copied, installing, log, prev, pre,
                   mask, disk, call>>

\* ------------------------------------------------- staging (entries.rs)

\* What copy_to_kernels_dir returns when it staged under kernels/
KernelsDirPath(name) == GrubPath("boot", "kernels/name")

\* What copy_to_kernels_dir returns when a store pair exists
StorePath(path) == GrubPath("store", JoinWith(path, "/"))

TmpName(name) == name \o ".tmp"

\* The entry add_entry is working on, and the store path of the part staged
Gen == todo[ei].gen
PartPath == Unwrap(Gen[part])

\* Where add_entry goes after the copy of one part: initrd after kernel, then
\* the secrets, then xen.gz if the generation has one, then the menuentry
\* is written.
AfterPart(p) ==
    IF p = "kernel" THEN [pc |-> "copy", part |-> "initrd"]
    ELSE IF p = "initrd" THEN [pc |-> "secrets", part |-> "secrets"]
    ELSE IF p = "secrets" /\ IsSome(Gen.xen) THEN [pc |-> "copy", part |-> "xen"]
    ELSE [pc |-> "emit", part |-> p]

\* Where entries() goes after one add_entry: the next entry, or install()
AfterEntry == IF ei < Len(todo) THEN "add_entry" ELSE "install"

\* add_entry: a generation without kernel or initrd is skipped silently
AddEntry ==
    /\ pc = "add_entry"
    /\ IF IsSome(Gen.kernel) /\ IsSome(Gen.initrd)
       THEN /\ pc' = "copy"
            /\ part' = "kernel"
            /\ cur' = NoEntry
            /\ ei' = ei
       ELSE /\ pc' = AfterEntry
            /\ ei' = ei + 1
            /\ UNCHANGED <<part, cur>>
    /\ UNCHANGED <<inputs, inner, copied, installing, log, prev, pre, env, disk, call>>

\* A copy_to_kernels_dir that copies straight to the destination
CopyInPlace ==
    /\ pc = "copy"
    /\ LET name == Mangle(PartPath)
       IN  IF IsSome(grub_store)
           THEN /\ cur' = [cur EXCEPT ![part] = Some(StorePath(PartPath))]
                /\ pc' = AfterPart(part).pc
                /\ part' = AfterPart(part).part
                /\ UNCHANGED <<copied, kernels>>
           ELSE IF ~dry_run /\ ~Exists(kernels, name)
           THEN /\ kernels' = kernels \cup {KernelFile(name, FALSE)}
                /\ pc' = "copy_write"
                /\ UNCHANGED <<cur, part, copied>>
           ELSE /\ copied' = copied \cup {name}
                /\ cur' = [cur EXCEPT ![part] = Some(KernelsDirPath(name))]
                /\ pc' = AfterPart(part).pc
                /\ part' = AfterPart(part).part
                /\ UNCHANGED kernels
    /\ UNCHANGED <<inputs, ei, inner, installing, log, prev, pre, env,
                   grub_cfg, grub_cfg_tmp, state_file, state_tmp, call>>

\* copy_to_kernels_dir up to the start of fs::copy: with a store pair the
\* store path is returned; a destination that exists (or a dry run) is only
\* recorded; otherwise <dst>.tmp is created, which fails when the
\* directory <boot_path>/kernels is not there (nothing here creates it).
CopyToKernelsDir ==
    /\ pc = "copy"
    /\ LET name == Mangle(PartPath)
       IN  IF IsSome(grub_store)
           THEN /\ cur' = [cur EXCEPT ![part] = Some(StorePath(PartPath))]
                /\ pc' = AfterPart(part).pc
                /\ part' = AfterPart(part).part
                /\ UNCHANGED <<copied, kernels>>
           ELSE IF ~dry_run /\ ~Exists(kernels, name) /\ KernelsDir \notin boot_misc
           THEN /\ pc' = "failed"
                /\ UNCHANGED <<cur, part, copied, kernels>>
           ELSE IF ~dry_run /\ ~Exists(kernels, name)
           THEN /\ kernels' = {f \in kernels : f.name # TmpName(name)}
                                \cup {KernelFile(TmpName(name), FALSE)}
                /\ pc' = "copy_write"
                /\ UNCHANGED <<cur, part, copied>>
           ELSE /\ copied' = copied \cup {name}
                /\ cur' = [cur EXCEPT ![part] = Some(KernelsDirPath(name))]
                /\ pc' = AfterPart(part).pc
                /\ part' = AfterPart(part).part
                /\ UNCHANGED kernels
    /\ UNCHANGED <<inputs, ei, inner, installing, log, prev, pre, env,
                   grub_cfg, grub_cfg_tmp, state_file, state_tmp, call>>

\* fs::copy(path, tmp): the copy completes, or fails and leaves what it wrote
CopyWrite ==
    /\ pc = "copy_write"
    /\ \/ /\ kernels' = {f \in kernels : f.name # TmpName(Mangle(PartPath))}
                          \cup {KernelFile(TmpName(Mangle(PartPath)), TRUE)}
          /\ pc' = "copy_rename"
       \/ /\ pc' = "failed"
          /\ UNCHANGED kernels
    /\ UNCHANGED <<inputs, staging, installing, log, prev, pre, env,
                   grub_cfg, grub_cfg_tmp, state_file, state_tmp, call>>

\* fs::rename(tmp, dst), then copied.insert(dst) and the returned path
CopyRename ==
    /\ pc = "copy_rename"
    /\ LET name == Mangle(PartPath)
       IN  /\ kernels' = {f \in kernels : f.name \notin {name, TmpName(name)}}
                           \cup {KernelFile(name, TRUE)}
           /\ copied' = copied \cup {name}
           /\ cur' = [cur EXCEPT ![part] = Some(KernelsDirPath(name))]
    /\ pc' = AfterPart(part).pc
    /\ part' = AfterPart(part).part
    /\ UNCHANGED <<inputs, ei, inner, installing, log, prev, pre, env,
                   grub_cfg, grub_cfg_tmp, state_file, state_tmp, call>>

\* The name of the secrets file of a generation under kernels/
SecretsName(gen) == gen.name \o "-secrets"

\* The mask the process starts with
InheritedMask == "022"

\* The mask append_initrd_secrets sets while the hook runs
SecretsMask == "137"

\* append_initrd_secrets up to the test of what the hook left: no secrets
\* without an executable hook; a dry run answers as if they were added;
\* otherwise kernels/ is created, the mask is set, the temporary path is
\* made and the hook runs on it. A non-zero exit is an error when current
\* is set and a warning when it is not; the mask is restored after that,
\* and the secrets are moved into place when the temporary path is not empty.
AppendInitrdSecrets ==
    /\ pc = "secrets"
    /\ IF ~Gen.hook
       THEN /\ cur' = [cur EXCEPT !.secrets = None]
            /\ pc' = AfterPart("secrets").pc
            /\ part' = AfterPart("secrets").part
            /\ UNCHANGED <<mask, log, boot_misc>>
       ELSE IF dry_run
       THEN /\ cur' = [cur EXCEPT !.secrets =
                          Some(GrubPath("boot", "kernels/" \o SecretsName(Gen)))]
            /\ pc' = AfterPart("secrets").pc
            /\ part' = AfterPart("secrets").part
            /\ UNCHANGED <<mask, log, boot_misc>>
       ELSE \/ /\ pc' = "failed"       \* create_dir_all or set_permissions fails
               /\ UNCHANGED <<mask, log, cur, part, boot_misc>>
            \/ /\ pc' = "failed"       \* TempDir::with_prefix or the spawn fails
               /\ mask' = SecretsMask
               /\ boot_misc' = boot_misc \cup {KernelsDir}
               /\ UNCHANGED <<log, cur, part>>
            \/ \E st \in ExitCodes : \E nonempty \in BOOLEAN :
                 LET old_umask == mask
                 IN  /\ boot_misc' = boot_misc \cup {KernelsDir}
                     /\ log' = Append(log, Invocation("append-initrd-secrets", None,
                                                     "", <<SecretsName(Gen)>>, st))
                     /\ IF st # 0 /\ todo[ei].current
                        THEN /\ pc' = "failed"
                             /\ mask' = SecretsMask
                             /\ UNCHANGED <<cur, part>>
                        ELSE /\ mask' = old_umask
                             /\ IF nonempty
                                THEN /\ pc' = "secrets_rename"
                                     /\ UNCHANGED <<cur, part>>
                                ELSE /\ cur' = [cur EXCEPT !.secrets = None]
                                     /\ pc' = AfterPart("secrets").pc
                                     /\ part' = AfterPart("secrets").part
    /\ UNCHANGED <<inputs, ei, inner, copied, installing, prev, pre, disk, call>>

\* The end of append_initrd_secrets: the temporary path is renamed to
\* kernels/<system-name>-secrets and recorded, or the rename fails
SecretsRename ==
    /\ pc = "secrets_rename"
    /\ \/ /\ kernels' = {f \in kernels : f.name # SecretsName(Gen)}
                          \cup {KernelFile(SecretsName(Gen), TRUE)}
          /\ copied' = copied \cup {SecretsName(Gen)}
          /\ cur' = [cur EXCEPT !.secrets =
                        Some(GrubPath("boot", "kernels/" \o SecretsName(Gen)))]
          /\ pc' = AfterPart("secrets").pc
          /\ part' = AfterPart("secrets").part
       \/ /\ pc' = "failed"
          /\ UNCHANGED <<kernels, copied, cur, part>>
    /\ UNCHANGED <<inputs, ei, inner, installing, log, prev, pre, env,
                   grub_cfg, grub_cfg_tmp, state_file, state_tmp, call>>

\* The end of add_entry: the menuentry block is written to the buffer
EmitEntry ==
    /\ pc = "emit"
    /\ inner' = Append(inner, cur)
    /\ pc' = AfterEntry
    /\ ei' = ei + 1
    /\ UNCHANGED <<inputs, part, cur, copied, installing, log, prev, pre, env,
                   disk, call>>

\* ----------------------------------------- the install driver (install.rs)

\* The test run_os_prober makes before it starts 30_os-prober
OsProberRuns(c) == ~c.use_os_prober

\* The package whose 30_os-prober is run: EFI when there is one, else BIOS;
\* None for the matrix Neither, which the source answers with todo!()
OsProberPackage(t) ==
    IF t.tag \in {"Both", "EfiOnly"} THEN t.efi
    ELSE IF t.tag = "BiosOnly" THEN t.bios
    ELSE None

\* The arguments of the grub-install of install_bios for one device
BiosArgs(c, dev, target) ==
    <<"--recheck", "--root-directory=<tmp>", dev>>
    \o c.extra_grub_install_args
    \o (IF c.force_install THEN <<"--force">> ELSE <<>>)
    \o (IF IsSome(target) THEN <<"--target=" \o Unwrap(target)>> ELSE <<>>)

\* Arguments of install_efi whose --removable does not ask whether the EFI
\* variables can be touched
EfiArgsFlat(c, target) ==
    <<"--recheck", "--target=" \o target, "--boot-directory=/boot",
      "--efi-directory=" \o c.efi_sys_mount_point>>
    \o c.extra_grub_install_args
    \o (IF c.force_install THEN <<"--force">> ELSE <<>>)
    \o <<"--bootloader-id=" \o c.bootloader_id>>
    \o (IF ~c.can_touch_efi_variables THEN <<"--no-nvram">> ELSE <<>>)
    \o (IF c.efi_install_as_removable THEN <<"--removable">> ELSE <<>>)

\* The arguments of the grub-install of install_efi
EfiArgs(c, target) ==
    <<"--recheck", "--target=" \o target, "--boot-directory=/boot",
      "--efi-directory=" \o c.efi_sys_mount_point>>
    \o c.extra_grub_install_args
    \o (IF c.force_install THEN <<"--force">> ELSE <<>>)
    \o <<"--bootloader-id=" \o c.bootloader_id>>
    \o (IF ~c.can_touch_efi_variables
        THEN <<"--no-nvram">>
             \o (IF c.efi_install_as_removable THEN <<"--removable">> ELSE <<>>)
        ELSE <<>>)

\* Builder::install up to the write of the temporary file: the matrix is
\* deduced (an error ends the run), a dry run prints the buffer and returns.
Install ==
    /\ pc = "install"
    /\ efi_target' = Deduce(config)
    /\ pc' = IF Deduce(config).tag = "Error" THEN "failed"
             ELSE IF dry_run THEN "done"
             ELSE "write_temp"
    /\ UNCHANGED <<inputs, staging, grub_state, dirty, di, log, prev, pre, env,
                   disk, call>>

\* An install that writes the buffer over grub.cfg itself
WriteTempInPlace ==
    /\ pc = "write_temp"
    /\ grub_cfg' = CfgOf(inner, FALSE, "none")
    /\ grub_cfg_tmp' = CfgOf(inner, FALSE, "none")
    /\ pc' = "write_temp_end"
    /\ UNCHANGED <<inputs, staging, installing, log, prev, pre, env,
                   state_file, state_tmp, kernels, call>>

\* fs::write(temp, inner) creates or truncates grub.cfg.tmp ...
WriteTemp ==
    /\ pc = "write_temp"
    /\ grub_cfg_tmp' = CfgOf(inner, FALSE, "none")
    /\ pc' = "write_temp_end"
    /\ UNCHANGED <<inputs, staging, installing, log, prev, pre, env,
                   grub_cfg, state_file, state_tmp, kernels, call>>

\* ... and writes the buffer to its end, or fails part-way
WriteTempEnd ==
    /\ pc = "write_temp_end"
    /\ \/ /\ grub_cfg_tmp' = CfgOf(inner, TRUE, "none")
          /\ pc' = "prepare"
       \/ /\ pc' = "failed"
          /\ UNCHANGED grub_cfg_tmp
    /\ UNCHANGED <<inputs, staging, installing, log, prev, pre, env,
                   grub_cfg, state_file, state_tmp, kernels, call>>

\* append_prepare_config: the shell runs a non-empty extra_prepare_config;
\* only a failure to start it is an error, its exit status is not read.
AppendPrepareConfig ==
    /\ pc = "prepare"
    /\ IF config.extra_prepare_config # ""
       THEN \E st \in ExitCodes :
                log' = Append(log, Invocation("shell", None, "",
                                  <<"-c", config.extra_prepare_config>>, st))
       ELSE log' = log
    /\ pc' = "os_prober"
    /\ UNCHANGED <<inputs, staging, installing, prev, pre, env, disk, call>>

\* run_os_prober: returns at once or appends the output of 30_os-prober to
\* grub.cfg.tmp; the exit status is not read; the matrix Neither panics.
RunOsProber ==
    /\ pc = "os_prober"
    /\ IF ~OsProberRuns(config)
       THEN /\ pc' = "rename"
            /\ UNCHANGED <<log, grub_cfg_tmp>>
       ELSE IF OsProberPackage(efi_target) = None
       THEN /\ pc' = "panicked"
            /\ UNCHANGED <<log, grub_cfg_tmp>>
       ELSE \E st \in ExitCodes : \E out \in {"partial", "full"} :
            /\ st = 0 <=> out = "full"
            /\ log' = Append(log, Invocation("os-prober", OsProberPackage(efi_target),
                                             "", <<>>, st))
            /\ grub_cfg_tmp' = [grub_cfg_tmp EXCEPT !.prober = out]
            /\ pc' = "rename"
    /\ UNCHANGED <<inputs, staging, installing, prev, pre, env,
                   grub_cfg, state_file, state_tmp, kernels, call>>

\* fs::rename(temp, conf): grub.cfg.tmp replaces grub.cfg, or the rename fails
RenameConf ==
    /\ pc = "rename"
    /\ \/ /\ grub_cfg' = grub_cfg_tmp
          /\ grub_cfg_tmp' = NoFile
          /\ pc' = "remove_old_kernels"
       \/ /\ pc' = "failed"
          /\ UNCHANGED <<grub_cfg, grub_cfg_tmp>>
    /\ UNCHANGED <<inputs, staging, installing, log, prev, pre, env,
                   state_file, state_tmp, kernels, call>>

\* A remove_old_kernels that keeps only what the last entry staged
RemoveOldKernelsLast ==
    /\ pc = "remove_old_kernels"
    /\ kernels' = {f \in kernels : f.name \in copied /\ f.name # OldKernel
                                    /\ f.name # Mangle(Unwrap(Gen1.initrd))}
    /\ pc' = "load"
    /\ UNCHANGED <<inputs, staging, installing, log, prev, pre, env,
                   grub_cfg, grub_cfg_tmp, state_file, state_tmp, call>>

\* remove_old_kernels: every entry of kernels/ that is not in copied goes;
\* fs::read_dir(<boot_path>/kernels)? ends the run with its error when the
\* directory is not there
RemoveOldKernels ==
    /\ pc = "remove_old_kernels"
    /\ IF KernelsDir \in boot_misc
       THEN /\ kernels' = {f \in kernels : f.name \in copied}
            /\ pc' = "load"
       ELSE /\ pc' = "failed"
            /\ UNCHANGED kernels
    /\ UNCHANGED <<inputs, staging, installing, log, prev, pre, env,
                   grub_cfg, grub_cfg_tmp, state_file, state_tmp, call>>

\* GrubState::load, then grub_state.update(config, efi_target): a clean
\* state ends the run, a dirty one goes on to the installs.
LoadUpdate ==
    /\ pc = "load"
    /\ LET u == Update(Load(state_file), config, efi_target)
       IN  /\ grub_state' = u.state
           /\ dirty' = u.dirty
           /\ pc' = IF u.dirty THEN "install_bios" ELSE "done"
    /\ di' = 1
    /\ UNCHANGED <<inputs, staging, efi_target, log, prev, pre, env, disk, call>>

\* An install_bios that does not read the exit status of grub-install
InstallBiosKeepGoing ==
    /\ pc = "install_bios"
    /\ IF BiosOf(efi_target) = None \/ di > Len(config.devices)
       THEN /\ pc' = "install_efi"
            /\ UNCHANGED <<di, log>>
       ELSE IF config.devices[di] = "nodev"
       THEN /\ di' = di + 1
            /\ UNCHANGED <<pc, log>>
       ELSE \E st \in ExitCodes :
                /\ log' = Append(log, Invocation("grub-install-bios",
                              Some(Unwrap(BiosOf(efi_target)).pkg), config.devices[di],
                              BiosArgs(config, config.devices[di],
                                       Unwrap(BiosOf(efi_target)).target), st))
                /\ di' = di + 1
                /\ pc' = pc
    /\ UNCHANGED <<inputs, staging, efi_target, grub_state, dirty, prev, pre, env,
                   disk, call>>

\* install_bios, one turn of its loop: without a BIOS package or past the
\* last device it returns; "nodev" is skipped; otherwise grub-install runs
\* (or the device cannot be canonicalised) and a non-zero exit is fatal.
InstallBios ==
    /\ pc = "install_bios"
    /\ IF BiosOf(efi_target) = None \/ di > Len(config.devices)
       THEN /\ pc' = "install_efi"
            /\ UNCHANGED <<di, log>>
       ELSE IF config.devices[di] = "nodev"
       THEN /\ di' = di + 1
            /\ UNCHANGED <<pc, log>>
       ELSE \/ \E st \in ExitCodes :
                /\ log' = Append(log, Invocation("grub-install-bios",
                              Some(Unwrap(BiosOf(efi_target)).pkg), config.devices[di],
                              BiosArgs(config, config.devices[di],
                                       Unwrap(BiosOf(efi_target)).target), st))
                /\ IF st = 0
                   THEN /\ di' = di + 1
                        /\ pc' = pc
                   ELSE /\ pc' = "failed"
                        /\ di' = di
            \/ /\ pc' = "failed"
               /\ UNCHANGED <<di, log>>
    /\ UNCHANGED <<inputs, staging, efi_target, grub_state, dirty, prev, pre, env,
                   disk, call>>

\* An install_efi that goes on to the save whatever grub-install returned
InstallEfiIgnoreStatus ==
    /\ pc = "install_efi"
    /\ IF EfiOf(efi_target) = None
       THEN /\ pc' = "save"
            /\ log' = log
       ELSE \E st \in ExitCodes :
            /\ log' = Append(log, Invocation("grub-install-efi",
                          Some(Unwrap(EfiOf(efi_target)).pkg), "",
                          EfiArgs(config, Unwrap(EfiOf(efi_target)).target), st))
            /\ pc' = "save"
    /\ UNCHANGED <<inputs, staging, installing, prev, pre, env, disk, call>>

\* install_efi: without an EFI package it returns; otherwise grub-install
\* runs once and a non-zero exit is fatal.
InstallEfi ==
    /\ pc = "install_efi"
    /\ IF EfiOf(efi_target) = None
       THEN /\ pc' = "save"
            /\ log' = log
       ELSE \E st \in ExitCodes :
            /\ log' = Append(log, Invocation("grub-install-efi",
                          Some(Unwrap(EfiOf(efi_target)).pkg), "",
                          EfiArgs(config, Unwrap(EfiOf(efi_target)).target), st))
            /\ pc' = IF st = 0 THEN "save" ELSE "failed"
    /\ UNCHANGED <<inputs, staging, installing, prev, pre, env, disk, call>>

\* GrubState::save: File::create(<path>.tmp) ...
SaveCreate ==
    /\ pc = "save"
    /\ state_tmp' = StateFileOf("partial", "", "", "", <<>>, "", JsonLine("none", <<>>))
    /\ pc' = "save_write"
    /\ UNCHANGED <<inputs, staging, installing, log, prev, pre, env,
                   grub_cfg, grub_cfg_tmp, state_file, kernels, call>>

\* ... the six lines go to a BufWriter, which is dropped at the end of the
\* block. A write that the buffer cannot take and that fails is returned
\* with ?; the lines still in the buffer are written when the BufWriter is
\* dropped, and a failure of that write is ignored: save goes on to the
\* rename with the file as far as it was written ...
SaveWrite ==
    /\ pc = "save_write"
    /\ \/ /\ state_tmp' = SaveContent(grub_state)
          /\ pc' = "save_rename"
       \/ /\ pc' = "failed"
          /\ UNCHANGED state_tmp
       \/ /\ pc' = "save_rename"
          /\ UNCHANGED state_tmp
    /\ UNCHANGED <<inputs, staging, installing, log, prev, pre, env,
                   grub_cfg, grub_cfg_tmp, state_file, kernels, call>>

\* ... and fs::rename(<path>.tmp, <path>) publishes them
SaveRename ==
    /\ pc = "save_rename"
    /\ \/ /\ state_file' = state_tmp
          /\ state_tmp' = NoStateFile
          /\ pc' = "done"
       \/ /\ pc' = "failed"
          /\ UNCHANGED <<state_file, state_tmp>>
    /\ UNCHANGED <<inputs, staging, installing, log, prev, pre, env,
                   grub_cfg, grub_cfg_tmp, kernels, call>>

\* The process is killed, or the machine loses power, at any point of a
\* run: the disk stays as the run left it
Crash ==
    /\ pc \notin Terminal
    /\ pc' = "crashed"
    /\ UNCHANGED <<inputs, staging, installing, log, prev, pre, env, disk, call>>

\* The next activation with the same configuration, after a run that ended
\* (with success or with an error): main builds a new Builder over the disk
\* as that run left it
NextRun ==
    /\ pc \in Reruns
    /\ prev' = pc
    /\ pre' = [grub_cfg |-> grub_cfg, state_file |-> state_file]
    /\ pc' = "font"
    /\ ei' = 1
    /\ part' = "kernel"
    /\ cur' = NoEntry
    /\ inner' = <<>>
    /\ copied' = {}
    /\ efi_target' = NoTarget
    /\ grub_state' = DefaultGrubState
    /\ dirty' = FALSE
    /\ di' = 1
    /\ log' = <<>>
    /\ UNCHANGED <<inputs, env, disk, call>>

Next ==
    \/ AppendFont \/ AppendSplash \/ AppendTheme
    \/ AddEntry \/ CopyToKernelsDir \/ CopyWrite \/ CopyRename
    \/ AppendInitrdSecrets \/ SecretsRename \/ EmitEntry
    \/ Install \/ WriteTemp \/ WriteTempEnd \/ AppendPrepareConfig \/ RunOsProber
    \/ RenameConf \/ RemoveOldKernels \/ LoadUpdate \/ InstallBios \/ InstallEfi
    \/ SaveCreate \/ SaveWrite \/ SaveRename \/ Crash \/ NextRun

\* What the state file holds when grub-install ran with the parameters of c
Desired(c) ==
    GrubStateOf(c.full_name, c.full_version, ToStr(Deduce(c)), c.devices,
                c.efi_sys_mount_point, c.extra_grub_install_args)

\* The state files a run may find: none, or the one written for an earlier
\* configuration that differs from this one in its version or its devices
InitialStateFiles(c) ==
    {NoStateFile}
    \cup {SaveContent([Desired(c) EXCEPT !.version = v, !.devices = d]) :
            v \in Versions, d \in {<<"/dev/sdb">>, c.devices}}

Init ==
    /\ config \in Configs
    /\ dry_run \in BOOLEAN
    /\ grub_store = None
    /\ todo = Entries(GenHook, <<>>)
    /\ prev = "none"
    /\ FreshBuilder
    /\ grub_cfg = OldCfg
    /\ grub_cfg_tmp = NoFile
    /\ state_file \in InitialStateFiles(config)
    /\ state_tmp = NoStateFile
    /\ kernels = {KernelFile(OldKernel, TRUE)}
    /\ boot_misc = {KernelsDir}
    /\ mask = InheritedMask
    /\ pre = [grub_cfg |-> grub_cfg, state_file |-> state_file]
    /\ call = NoCall

Spec == Init /\ [][Next]_vars

\* ----------------------------------------- runs over varied generations

\* The add_entry calls of a run: one to MaxEntries generations
Todos == SeqsUpTo({Gen1, Gen2, GenNoKernel, GenHook}, MaxEntries) \ {<<>>}

StagingConfigs ==
    {ConfigOf(Some("/nix/store/grub"), Some("i386-pc"), Some("/nix/store/grub-efi"),
              Some("x86_64-efi"), <<"/dev/sda">>, <<>>, "24.11", p, "") :
        p \in BOOLEAN}

\* kernels/ as an earlier activation left it: with the kernel of the old
\* grub.cfg, and with or without the kernel of Gen1 already staged
InitialKernels ==
    {{KernelFile(OldKernel, TRUE)},
     {KernelFile(OldKernel, TRUE), KernelFile(Mangle(Unwrap(Gen1.kernel)), TRUE)},
     {KernelFile(OldKernel, TRUE),
      KernelFile(TmpName(Mangle(Unwrap(Gen1.kernel))), FALSE)}}

InitStaging ==
    /\ config \in StagingConfigs
    /\ dry_run \in BOOLEAN
    /\ grub_store \in {None, Some("/nix/store")}
    /\ todo \in {Entries(Head(t), Tail(t)) : t \in Todos}
    /\ prev = "none"
    /\ FreshBuilder
    /\ grub_cfg = OldCfg
    /\ grub_cfg_tmp = NoFile
    /\ state_file = NoStateFile
    /\ state_tmp = NoStateFile
    /\ kernels \in InitialKernels
    /\ boot_misc = {KernelsDir}
    /\ mask = InheritedMask
    /\ pre = [grub_cfg |-> grub_cfg, state_file |-> state_file]
    /\ call = NoCall

SpecStaging == InitStaging /\ [][Next]_vars

\* ------------------------- runs with hooks, helpers, splash and theme

\* The default configuration with or without the hook, alone or with one
\* older generation of the system profile
HookTodos ==
    {Entries(d, h) : d \in {Gen1, GenHook},
                     h \in {<<>>, <<GenOld>>}}

HookConfigs ==
    {[ConfigOf(Some("/nix/store/grub"), Some("i386-pc"), None, None,
               <<"/dev/sda">>, <<>>, "24.11", FALSE, p)
        EXCEPT !.splash_image = sp, !.theme = th] :
        p \in {"", "mkdir -p @bootPath@/grub"},
        sp \in {None, Some(<<"splash", "jpg">>), Some(<<"splash">>)},
        th \in {None, Some("/nix/store/theme")}}

InitHooks ==
    /\ config \in HookConfigs
    /\ dry_run \in BOOLEAN
    /\ grub_store = None
    /\ todo \in HookTodos
    /\ prev = "none"
    /\ FreshBuilder
    /\ grub_cfg = OldCfg
    /\ grub_cfg_tmp = NoFile
    /\ state_file = NoStateFile
    /\ state_tmp = NoStateFile
    /\ kernels = {KernelFile(OldKernel, TRUE)}
    /\ boot_misc \in {{KernelsDir}, {KernelsDir, "theme"}}
    /\ mask = InheritedMask
    /\ pre = [grub_cfg |-> grub_cfg, state_file |-> state_file]
    /\ call = NoCall

SpecHooks == InitHooks /\ [][Next]_vars

\* ------------------------------------- GrubState::update applied on its own

UpdNames == {"", "NixOS"}
UpdVersions == {"24.05", "24.11"}
UpdEfis == {"", "no", "both"}
UpdMounts == {"/boot", "/boot/efi"}
UpdDevSeqs == SeqsUpTo({"/dev/sda", "/dev/sdb"}, MaxUpdDevices)

\* The records a state file may hold
UpdStates ==
    {GrubStateOf(n, v, e, d, m, a) :
        n \in UpdNames, v \in UpdVersions, e \in UpdEfis, d \in UpdDevSeqs,
        m \in UpdMounts, a \in ArgSeqs}

\* The configurations update is given, each with the matrix deduced from it
UpdConfigs ==
    {[ConfigOf(g, Some("i386-pc"), ge, Some("x86_64-efi"), d, a, v, FALSE, "")
        EXCEPT !.efi_sys_mount_point = m] :
        g \in OptGrub, ge \in OptGrubEfi, d \in UpdDevSeqs, a \in ArgSeqs,
        v \in {"24.11"}, m \in {"/boot/efi"}}

CallUpdate(gs, c) == [fn |-> "update", gs |-> gs, c |-> c, returned |-> FALSE,
                      dirty |-> FALSE, state |-> gs]

\* grub_state.update(&config, &efi_target) on the record and configuration drawn
ApplyUpdate ==
    /\ call.fn = "update"
    /\ ~call.returned
    /\ LET u == Update(call.gs, call.c, Deduce(call.c))
       IN  call' = [call EXCEPT !.returned = TRUE, !.dirty = u.dirty, !.state = u.state]
    /\ UNCHANGED <<inputs, pc, staging, installing, log, prev, pre, env, disk>>

InitUpdate ==
    /\ call \in {CallUpdate(gs, c) : gs \in UpdStates, c \in UpdConfigs}
    /\ config = call.c
    /\ dry_run = FALSE
    /\ grub_store = None
    /\ todo = Entries(Gen1, <<>>)
    /\ prev = "none"
    /\ FreshBuilder
    /\ grub_cfg = OldCfg
    /\ grub_cfg_tmp = NoFile
    /\ state_file = NoStateFile
    /\ state_tmp = NoStateFile
    /\ kernels = {KernelFile(OldKernel, TRUE)}
    /\ boot_misc = {KernelsDir}
    /\ mask = InheritedMask
    /\ pre = [grub_cfg |-> grub_cfg, state_file |-> state_file]

NextUpdate == ApplyUpdate

SpecUpdate == InitUpdate /\ [][NextUpdate]_vars

\* ------------------------------------- Builder::add_profile on its own

\* File names are sequences of characters.
Dash == <<"-">>
SystemName == <<"s", "y", "s", "t", "e", "m">>
LinkSuffix == <<"l", "i", "n", "k">>

\* str::rsplit_once(ch): the text before and after the last ch, or None
RSplitOnce(str, ch) ==
    LET at == {i \in DOMAIN str : str[i] = ch}
    IN  IF at = {} THEN None
        ELSE LET last == CHOOSE i \in at : \A j \in at : j <= i
             IN  Some(<<SubSeq(str, 1, last - 1), SubSeq(str, last + 1, Len(str))>>)

\* u32::MAX is 4294967295: its digits but the last, and its last digit
U32MaxDiv10 == 429496729
U32MaxMod10 == 5

DigitValue(ch) ==
    CASE ch = "0" -> 0 [] ch = "1" -> 1 [] ch = "2" -> 2 [] ch = "3" -> 3
      [] ch = "4" -> 4 [] ch = "5" -> 5 [] ch = "6" -> 6 [] ch = "7" -> 7
      [] ch = "8" -> 8 [] ch = "9" -> 9 [] OTHER -> 10

\* The digits of str read onto acc: None at a character that is not a
\* digit or when the value passes u32::MAX
RECURSIVE ParseDigits(_, _)
ParseDigits(str, acc) ==
    IF str = <<>> THEN Some(acc)
    ELSE IF DigitValue(Head(str)) > 9 THEN None
    ELSE IF \/ acc > U32MaxDiv10
            \/ acc = U32MaxDiv10 /\ DigitValue(Head(str)) > U32MaxMod10 THEN None
    ELSE ParseDigits(Tail(str), acc * 10 + DigitValue(Head(str)))

\* str::parse::<u32>: decimal digits after an optional '+'
ParseU32(str) ==
    LET digits == IF str # <<>> /\ Head(str) = "+" THEN Tail(str) ELSE str
    IN  IF digits = <<>> THEN None ELSE ParseDigits(digits, 0)

\* The closure of filter_map in add_profile: the generation number of a
\* file named <name>-<N>-link, None for any other file
LinkGen(file, name) ==
    LET outer == RSplitOnce(file, "-")
    IN  IF outer = None \/ Unwrap(outer)[2] # LinkSuffix THEN None
        ELSE LET inner_split == RSplitOnce(Unwrap(outer)[1], "-")
             IN  IF inner_split = None THEN None
                 ELSE IF Unwrap(inner_split)[1] = name
                 THEN ParseU32(Unwrap(inner_split)[2])
                 ELSE None

\* read_dir(parent).filter_map(..).collect(): the links of the profile, in
\* the order of the listing
RECURSIVE LinksOf(_, _)
LinksOf(listing, name) ==
    IF listing = <<>> THEN <<>>
    ELSE (IF LinkGen(Head(listing), name) = None THEN <<>>
          ELSE <<[file |-> Head(listing), gen |-> Unwrap(LinkGen(Head(listing), name))]>>)
         \o LinksOf(Tail(listing), name)

RECURSIVE InsertAsc(_, _)
InsertAsc(sorted, x) ==
    IF sorted = <<>> THEN <<x>>
    ELSE IF Head(sorted).gen <= x.gen THEN <<Head(sorted)>> \o InsertAsc(Tail(sorted), x)
    ELSE <<x>> \o sorted

RECURSIVE InsertDesc(_, _)
InsertDesc(sorted, x) ==
    IF sorted = <<>> THEN <<x>>
    ELSE IF Head(sorted).gen >= x.gen THEN <<Head(sorted)>> \o InsertDesc(Tail(sorted), x)
    ELSE <<x>> \o sorted

\* A sort by the generation number, lowest first
RECURSIVE SortByKey(_)
SortByKey(links) ==
    IF links = <<>> THEN <<>>
    ELSE InsertAsc(SortByKey(SubSeq(links, 1, Len(links) - 1)), links[Len(links)])

\* links.sort_by_key(|(_, gen)| Reverse(gen)): stable, highest first
RECURSIVE SortByKeyReverse(_)
SortByKeyReverse(links) ==
    IF links = <<>> THEN <<>>
    ELSE InsertDesc(SortByKeyReverse(SubSeq(links, 1, Len(links) - 1)), links[Len(links)])

\* Iterator::take(n)
Take(seq, n) == SubSeq(seq, 1, IF n < Len(seq) THEN n ELSE Len(seq))

\* The generations add_profile calls add_generation for: the links of the
\* profile, highest number first, cut to configuration_limit, without those
\* whose nixos-version cannot be read
AddProfile(listing, name, configuration_limit, corrupt) ==
    SelectSeq(Take(SortByKeyReverse(LinksOf(listing, name)), configuration_limit),
              LAMBDA l : l.file \notin corrupt)

\* The files of a profiles directory
LinkFile(profile, gen) == profile \o Dash \o gen \o Dash \o LinkSuffix

ProfileFiles ==
    {LinkFile(SystemName, <<"5">>), LinkFile(SystemName, <<"0", "5">>),
     LinkFile(SystemName, <<"1", "2">>), LinkFile(SystemName, <<"x">>),
     LinkFile(<<"o">>, <<"7">>), LinkFile(<<"m", "y">> \o Dash \o SystemName, <<"3">>),
     SystemName \o Dash \o LinkSuffix}

\* The listings read_dir may give: up to MaxLinks files, in any order
Listings ==
    {l \in SeqsUpTo(ProfileFiles, MaxLinks) :
        \A i, j \in DOMAIN l : i # j => l[i] # l[j]}

CallAddProfile(listing, limit, corrupt) ==
    [fn |-> "add_profile", listing |-> listing, limit |-> limit,
     corrupt |-> corrupt, returned |-> FALSE, emitted |-> <<>>]

\* add_profile(/nix/var/nix/profiles/system, ..) on the listing drawn
ApplyAddProfile ==
    /\ call.fn = "add_profile"
    /\ ~call.returned
    /\ call' = [call EXCEPT !.returned = TRUE,
                            !.emitted = AddProfile(call.listing, SystemName,
                                                   call.limit, call.corrupt)]
    /\ UNCHANGED <<inputs, pc, staging, installing, log, prev, pre, env, disk>>

InitProfile ==
    /\ call \in {CallAddProfile(l, n, c) :
                    l \in Listings, n \in 0..MaxLinks,
                    c \in {{}, {LinkFile(SystemName, <<"1", "2">>)}}}
    /\ config = ConfigOf(Some("/nix/store/grub"), None, None, None, <<>>, <<>>,
                         "24.11", FALSE, "")
    /\ dry_run = FALSE
    /\ grub_store = None
    /\ todo = Entries(Gen1, <<>>)
    /\ prev = "none"
    /\ FreshBuilder
    /\ grub_cfg = OldCfg
    /\ grub_cfg_tmp = NoFile
    /\ state_file = NoStateFile
    /\ state_tmp = NoStateFile
    /\ kernels = {KernelFile(OldKernel, TRUE)}
    /\ boot_misc = {KernelsDir}
    /\ mask = InheritedMask
    /\ pre = [grub_cfg |-> grub_cfg, state_file |-> state_file]

NextProfile == ApplyAddProfile

SpecProfile == InitProfile /\ [][NextProfile]_vars

\* ---------------------------------------- Users::from_node on its own

\* Texts are sequences of characters.
GrubP == <<"g", "r", "u", "b", ".", "p">>
Kdf2 == <<"k", "d", "f", "2">>

\* The prefix Users::from_node tests a hashed password for
HashPrefix == GrubP \o <<"d">> \o Kdf2

\* str::starts_with
StartsWith(text, prefix) ==
    /\ Len(text) >= Len(prefix)
    /\ SubSeq(text, 1, Len(prefix)) = prefix

\* Passwords and hashes a configuration may give
Pbkdf2Hash == GrubP \o <<"b">> \o Kdf2 \o <<".", "s", "h", "a">>
PdkdfHash == GrubP \o <<"d">> \o Kdf2 \o <<".", "s", "h", "a">>
OtherHash == <<"$", "6", "$", "s", "h", "a">>
PlainText == <<"h", "u", "n", "t", "e", "r">>

\* The paths of password files
HashFile == <<"/", "k", "/", "h">>
PlainFile == <<"/", "k", "/", "p">>
MissingFile == <<"/", "k", "/", "m">>

\* std::fs::read_to_string: the content of a file, None when it cannot be read
ReadToString(path) ==
    CASE path = HashFile -> Some(Pbkdf2Hash)
      [] path = PlainFile -> Some(PlainText)
      [] OTHER -> None

Hashed(text) == [kind |-> "Hashed", text |-> text]
Plain(text) == [kind |-> "Plain", text |-> text]
Ok(v) == [ok |-> TRUE, value |-> v]
Err(kind, user, hash) == [ok |-> FALSE, err |-> kind, user |-> user, hash |-> hash]

\* The attributes of one user: each source is None when the attribute is
\* absent (attr_to fails) and Some(text) when it is a string
UserOf(name, hashed_password_file, hashed_password, password_file, password) ==
    [name |-> name, hashedPasswordFile |-> hashed_password_file,
     hashedPassword |-> hashed_password, passwordFile |-> password_file,
     password |-> password]

\* The closure of Users::from_node for one user: the first source that
\* decodes is taken, a file is read, and a hashed password must start with
\* the prefix
UserFromNode(u) ==
    LET password ==
            IF IsSome(u.hashedPasswordFile)
            THEN IF ReadToString(Unwrap(u.hashedPasswordFile)) = None
                 THEN Err("Io", u.name, <<>>)
                 ELSE Ok(Hashed(Unwrap(ReadToString(Unwrap(u.hashedPasswordFile)))))
            ELSE IF IsSome(u.hashedPassword)
            THEN Ok(Hashed(Unwrap(u.hashedPassword)))
            ELSE IF IsSome(u.passwordFile)
            THEN IF ReadToString(Unwrap(u.passwordFile)) = None
                 THEN Err("Io", u.name, <<>>)
                 ELSE Ok(Plain(Unwrap(ReadToString(Unwrap(u.passwordFile)))))
            ELSE IF IsSome(u.password)
            THEN Ok(Plain(Unwrap(u.password)))
            ELSE Err("PasswordNotFound", u.name, <<>>)
    IN  IF ~password.ok THEN password
        ELSE IF /\ password.value.kind = "Hashed"
                /\ ~StartsWith(password.value.text, HashPrefix)
        THEN Err("InvalidHashedPassword", u.name, password.value.text)
        ELSE Ok(password.value)

\* Users::from_node: the users in document order, collected into a map
\* from name to password, or the error of the first user that has one
RECURSIVE UsersFromNode(_)
UsersFromNode(users) ==
    IF users = <<>> THEN Ok(<<>>)
    ELSE LET first == UserFromNode(Head(users))
             rest == UsersFromNode(Tail(users))
         IN  IF ~first.ok THEN first
             ELSE IF ~rest.ok THEN rest
             ELSE Ok(<<[user |-> Head(users).name, password |-> first.value]>>
                     \o rest.value)

\* The users of a configuration: every combination of sources for one
\* user, and pairs of users with one source each
OneUser(name) ==
    {UserOf(name, hf, h, pf, p) :
        hf \in {None, Some(<<>>), Some(HashFile), Some(MissingFile)},
        h \in {None, Some(<<>>), Some(Pbkdf2Hash), Some(PdkdfHash), Some(OtherHash)},
        pf \in {None, Some(<<>>), Some(PlainFile)},
        p \in {None, Some(<<>>), Some(PlainText)}}

SimpleUser(name) ==
    {UserOf(name, None, h, None, p) :
        h \in {None, Some(Pbkdf2Hash), Some(OtherHash)},
        p \in {None, Some(PlainText)}}

UserLists ==
    {<<u>> : u \in OneUser("root")}
    \cup {<<u, v>> : u \in SimpleUser("root"), v \in SimpleUser("alice")}

CallUsers(users) ==
    [fn |-> "users", users |-> users, returned |-> FALSE, result |-> Ok(<<>>)]

\* Users::from_node on the users drawn
ApplyUsers ==
    /\ call.fn = "users"
    /\ ~call.returned
    /\ call' = [call EXCEPT !.returned = TRUE, !.result = UsersFromNode(call.users)]
    /\ UNCHANGED <<inputs, pc, staging, installing, log, prev, pre, env, disk>>

InitUsers ==
    /\ call \in {CallUsers(us) : us \in UserLists}
    /\ config = ConfigOf(Some("/nix/store/grub"), None, None, None, <<>>, <<>>,
                         "24.11", FALSE, "")
    /\ dry_run = FALSE
    /\ grub_store = None
    /\ todo = Entries(Gen1, <<>>)
    /\ prev = "none"
    /\ FreshBuilder
    /\ grub_cfg = OldCfg
    /\ grub_cfg_tmp = NoFile
    /\ state_file = NoStateFile
    /\ state_tmp = NoStateFile
    /\ kernels = {KernelFile(OldKernel, TRUE)}
    /\ boot_misc = {KernelsDir}
    /\ mask = InheritedMask
    /\ pre = [grub_cfg |-> grub_cfg, state_file |-> state_file]

NextUsers == ApplyUsers

SpecUsers == InitUsers /\ [][NextUsers]_vars

\* --------------------------------- runs over the flags of the EFI install

\* Configurations with an EFI package, with and without a BIOS package,
\* over the three flags install_efi reads
EfiConfigs ==
    {[ConfigOf(g, Some("i386-pc"), Some("/nix/store/grub-efi"), Some("x86_64-efi"),
               <<"/dev/sda">>, a, "24.11", TRUE, "")
        EXCEPT !.force_install = f, !.can_touch_efi_variables = v,
               !.efi_install_as_removable = r] :
        g \in {None, Some("/nix/store/grub")}, a \in ArgSeqs,
        f \in BOOLEAN, v \in BOOLEAN, r \in BOOLEAN}

InitEfi ==
    /\ config \in EfiConfigs
    /\ dry_run = FALSE
    /\ grub_store = None
    /\ todo = Entries(GenHook, <<>>)
    /\ prev = "none"
    /\ FreshBuilder
    /\ grub_cfg = OldCfg
    /\ grub_cfg_tmp = NoFile
    /\ state_file = NoStateFile
    /\ state_tmp = NoStateFile
    /\ kernels = {KernelFile(OldKernel, TRUE)}
    /\ boot_misc = {KernelsDir}
    /\ mask = InheritedMask
    /\ pre = [grub_cfg |-> grub_cfg, state_file |-> state_file]
    /\ call = NoCall

SpecEfi == InitEfi /\ [][Next]_vars

\* ------------------------ runs on a boot partition with or without kernels/

\* What a run may find of <boot_path>/kernels: no directory, an empty one,
\* or one with the kernel of the old grub.cfg
InitialBoot ==
    {[boot_misc |-> {}, kernels |-> {}, grub_cfg |-> NoFile],
     [boot_misc |-> {KernelsDir}, kernels |-> {}, grub_cfg |-> NoFile],
     [boot_misc |-> {KernelsDir}, kernels |-> {KernelFile(OldKernel, TRUE)},
      grub_cfg |-> OldCfg]}

InitBoot ==
    /\ config = ConfigOf(Some("/nix/store/grub"), Some("i386-pc"), None, None,
                         <<"/dev/sda">>, <<>>, "24.11", TRUE, "")
    /\ dry_run \in BOOLEAN
    /\ grub_store \in {None, Some("/nix/store")}
    /\ todo \in {Entries(Gen1, <<>>), Entries(Gen1, <<Gen2>>), Entries(GenHook, <<>>),
                 Entries(Gen1, <<GenOld>>)}
    /\ prev = "none"
    /\ FreshBuilder
    /\ \E b \in InitialBoot :
          /\ boot_misc = b.boot_misc
          /\ kernels = b.kernels
          /\ grub_cfg = b.grub_cfg
    /\ grub_cfg_tmp = NoFile
    /\ state_file = NoStateFile
    /\ state_tmp = NoStateFile
    /\ mask = InheritedMask
    /\ pre = [grub_cfg |-> grub_cfg, state_file |-> state_file]
    /\ call = NoCall

SpecBoot == InitBoot /\ [][Next]_vars

\* ------------------------------------------- Config::new on its own

\* The rest of the program while one function is applied on its own
Standing ==
    /\ config = ConfigOf(Some("/nix/store/grub"), None, None, None, <<>>, <<>>,
                         "24.11", FALSE, "")
    /\ dry_run = FALSE
    /\ grub_store = None
    /\ todo = Entries(Gen1, <<>>)
    /\ prev = "none"
    /\ FreshBuilder
    /\ grub_cfg = OldCfg
    /\ grub_cfg_tmp = NoFile
    /\ state_file = NoStateFile
    /\ state_tmp = NoStateFile
    /\ kernels = {KernelFile(OldKernel, TRUE)}
    /\ boot_misc = {KernelsDir}
    /\ mask = InheritedMask
    /\ pre = [grub_cfg |-> grub_cfg, state_file |-> state_file]

\* The keys of the Option<&Path> and Option<&str> fields of config!, in the
\* order of the fields
OptionKeys ==
    <<"grub", "grubTarget", "grubEfi", "grubTargetEfi", "extraPerEntryConfig",
      "splashImage", "splashMode", "backgroundColor", "theme">>

\* The first element child of an <attr>: its tag and its value attribute
NodeOf(tag, value) == [tag |-> tag, value |-> value]

KeyNotFound(key) == [ok |-> FALSE, err |-> "KeyNotFound", key |-> key]
UnexpectedTag(tag) == [ok |-> FALSE, err |-> "UnexpectedTag", tag |-> tag]

\* AttrsNode::attr: the child of the <attr name=key>, or KeyNotFound.
\* attrs maps each key to None (no such <attr>) or Some(node).
Attr(attrs, key) ==
    IF attrs[key] = None THEN KeyNotFound(key) ELSE Ok(Unwrap(attrs[key]))

\* FromNode for &str: check_tag_name(node, "string", value)
StrFromNode(node) ==
    IF node.tag = "string" THEN Ok(node.value) ELSE UnexpectedTag(node.tag)

\* FromNode for Option<&str> and for Option<&Path>
OptionFromNode(node) ==
    LET s == StrFromNode(node)
    IN  IF ~s.ok THEN s
        ELSE Ok(IF s.value = "" THEN None ELSE Some(s.value))

\* AttrsNode::attr_to::<Option<_>>: self.attr(key).and_then(T::from_node)
AttrTo(attrs, key) ==
    LET n == Attr(attrs, key)
    IN  IF n.ok THEN OptionFromNode(n.value) ELSE n

\* Config::new over the optional fields: each field is decoded in turn and
\* the first error is returned (the ? of the macro)
ConfigNew(attrs) ==
    LET bad == {i \in DOMAIN OptionKeys : ~AttrTo(attrs, OptionKeys[i]).ok}
    IN  IF bad = {}
        THEN Ok([k \in SetOf(OptionKeys) |-> AttrTo(attrs, k).value])
        ELSE AttrTo(attrs, OptionKeys[CHOOSE i \in bad : \A j \in bad : i <= j])

\* What a document can hold under a key: nothing, an empty string, a string
StringNodes == {None, Some(NodeOf("string", "")), Some(NodeOf("string", "/nix/store/x"))}

\* The documents drawn: grub may also hold a node that is no string
Documents ==
    {a \in [SetOf(OptionKeys) -> StringNodes \cup {Some(NodeOf("bool", "true"))}] :
        \A k \in SetOf(OptionKeys) \ {"grub"} : a[k] \in StringNodes}

CallConfig(attrs) ==
    [fn |-> "config", attrs |-> attrs, returned |-> FALSE, result |-> Ok(<<>>)]

\* Config::new on the document drawn
ApplyConfig ==
    /\ call.fn = "config"
    /\ ~call.returned
    /\ call' = [call EXCEPT !.returned = TRUE, !.result = ConfigNew(call.attrs)]
    /\ UNCHANGED <<inputs, pc, staging, installing, log, prev, pre, env, disk>>

InitConfig ==
    /\ call \in {CallConfig(a) : a \in Documents}
    /\ Standing

NextConfig == ApplyConfig

SpecConfig == InitConfig /\ [][NextConfig]_vars

\* ------------------------- GrubState::load and save applied on their own

\* The fourth lines a state file may hold, as their comma-separated fields
FieldSeqs == {<<"">>, <<"/dev/sda">>, <<"/dev/sda", "/dev/sdb">>, <<"nodev", "">>}

\* The sixth lines a state file may hold
JsonLines ==
    {JsonLine("none", <<>>), JsonLine("empty", <<>>), JsonLine("invalid", <<>>)}
    \cup {JsonLine("object", a) : a \in ArgSeqs}

\* The state files load may find
StateFiles ==
    {StateFileOf(k, n, v, "no", d, "/boot/efi", j) :
        k \in {"missing", "short", "record"}, n \in {"", "NixOS"},
        v \in Versions, d \in FieldSeqs, j \in JsonLines}

\* The records save may be given
StateRecords ==
    {GrubStateOf(n, v, e, d, "/boot/efi", a) :
        n \in {"", "NixOS"}, v \in Versions, e \in {"no", "both"},
        d \in SeqsUpTo({"/dev/sda", "/dev/sdb"}, MaxUpdDevices), a \in ArgSeqs}

CallLoad(file) ==
    [fn |-> "load", file |-> file, returned |-> FALSE, state |-> DefaultGrubState]

CallSave(gs) ==
    [fn |-> "save", gs |-> gs, returned |-> FALSE, file |-> NoStateFile,
     state |-> DefaultGrubState]

\* GrubState::load on the file drawn
ApplyLoad ==
    /\ call.fn = "load"
    /\ ~call.returned
    /\ call' = [call EXCEPT !.returned = TRUE, !.state = Load(call.file)]
    /\ UNCHANGED <<inputs, pc, staging, installing, log, prev, pre, env, disk>>

\* gs.save() on the record drawn, then GrubState::load of the file written
ApplySaveLoad ==
    /\ call.fn = "save"
    /\ ~call.returned
    /\ call' = [call EXCEPT !.returned = TRUE, !.file = SaveContent(call.gs),
                            !.state = Load(SaveContent(call.gs))]
    /\ UNCHANGED <<inputs, pc, staging, installing, log, prev, pre, env, disk>>

InitState ==
    /\ call \in {CallLoad(f) : f \in StateFiles} \cup {CallSave(gs) : gs \in StateRecords}
    /\ Standing

NextState == ApplyLoad \/ ApplySaveLoad

SpecState == InitState /\ [][NextState]_vars

\* ------------------------------------ append_theme in two runs of its own

\* The walks of the theme directories drawn: the directory, then some files
ThemeWalks ==
    {LET Held(e) == e.rel \in held
     IN  <<WalkEntry("", "", FALSE)>> \o SelectSeq(ThemeFiles, Held) :
        held \in SUBSET {ThemeFiles[i].rel : i \in DOMAIN ThemeFiles}}

CallTheme(walk) ==
    [fn |-> "theme", walk |-> walk, returned |-> FALSE,
     first |-> ThemeBlock(<<>>, <<>>), second |-> ThemeBlock(<<>>, <<>>)]

\* append_theme of two dry runs over the same theme: each run builds its own
\* HashSet of modules and writes them in the order its iteration yields
ApplyThemeTwice ==
    /\ call.fn = "theme"
    /\ ~call.returned
    /\ \E o1, o2 \in IterationOrders(ModulesToLoad(call.walk)) :
          call' = [call EXCEPT !.returned = TRUE,
                               !.first = ThemeBlock(o1, FontsOf(call.walk)),
                               !.second = ThemeBlock(o2, FontsOf(call.walk))]
    /\ UNCHANGED <<inputs, pc, staging, installing, log, prev, pre, env, disk>>

InitTheme ==
    /\ call \in {CallTheme(w) : w \in ThemeWalks}
    /\ Standing

NextTheme == ApplyThemeTwice

SpecTheme == InitTheme /\ [][NextTheme]_vars

\* ------------------------------- the block lines Builder::entries writes

\* The lines that open and close a block of the menu
OpenSubmenu == "submenu {"
OpenEntry == "menuentry {"
CloseBlock == "}"

\* add_entry: the menuentry line, its body, its closing line
AddEntryLines == <<OpenEntry, CloseBlock>>

\* add_generation: a generation that is not the current one and has
\* specialisations is wrapped in a submenu; one entry for the generation and
\* one for each specialisation
AddGenerationLines(gen, current) ==
    LET wrapped == ~current /\ gen.specs # <<>>
        body == <<AddEntryLines>> \o [i \in DOMAIN gen.specs |-> AddEntryLines]
    IN  (IF wrapped THEN <<OpenSubmenu>> ELSE <<>>)
        \o [i \in 1..(2 * Len(body)) |-> body[(i + 1) \div 2][2 - (i % 2)]]
        \o (IF wrapped THEN <<CloseBlock>> ELSE <<>>)

RECURSIVE AddProfileBody(_)
AddProfileBody(gens) ==
    IF gens = <<>> THEN <<>>
    ELSE AddGenerationLines(Head(gens), FALSE) \o AddProfileBody(Tail(gens))

\* add_profile: the submenu line, then add_generation for each generation
\* selected; the function returns after the last of them
AddProfileLines(gens) == <<OpenSubmenu>> \o AddProfileBody(gens)

RECURSIVE AppendProfilesLines(_)
AppendProfilesLines(profiles) ==
    IF profiles = <<>> THEN <<>>
    ELSE AddProfileLines(Head(profiles)) \o AppendProfilesLines(Tail(profiles))

\* entries: append_default_entries (add_generation of the default
\* configuration as current), then append_profiles: add_profile of the
\* system profile, then of each profile of system-profiles
EntriesLines(default, system, others) ==
    AddGenerationLines(default, TRUE) \o AppendProfilesLines(<<system>> \o others)

\* The generations of a profile: up to MaxEntries of them
ProfileGens == SeqsUpTo({Gen1, GenOld}, MaxEntries)

CallEntries(default, system, others) ==
    [fn |-> "entries", default |-> default, system |-> system, others |-> others,
     returned |-> FALSE, lines |-> <<>>]

\* Builder::entries on the profiles drawn
ApplyEntries ==
    /\ call.fn = "entries"
    /\ ~call.returned
    /\ call' = [call EXCEPT !.returned = TRUE,
                   !.lines = EntriesLines(call.default, call.system, call.others)]
    /\ UNCHANGED <<inputs, pc, staging, installing, log, prev, pre, env, disk>>

InitMenu ==
    /\ call \in {CallEntries(d, s, o) :
                    d \in {Gen1, GenOld}, s \in ProfileGens,
                    o \in {<<>>} \cup {<<g>> : g \in ProfileGens}}
    /\ Standing

NextMenu == ApplyEntries

SpecMenu == InitMenu /\ [][NextMenu]_vars

\* ------------------------------------- Builder::add_generation on its own

\* The names of the entries of a specialisation directory, as the sequences
\* of the codes of their characters
SpecNames == {<<1>>, <<1, 2>>, <<2>>, <<2, 1>>}

\* What a generation may hold as specialisation/: None when the directory
\* is absent, else Some(listing) with up to MaxLinks entries in the order
\* read_dir gives them
SpecDirs ==
    {None} \cup {Some(l) : l \in {d \in SeqsUpTo(SpecNames, MaxLinks) :
                                    \A i, j \in DOMAIN d : i # j => d[i] # d[j]}}

\* The order of Path: that of the names, character by character
RECURSIVE PathLess(_, _)
PathLess(a, b) ==
    IF b = <<>> THEN FALSE
    ELSE IF a = <<>> THEN TRUE
    ELSE IF Head(a) # Head(b) THEN Head(a) < Head(b)
    ELSE PathLess(Tail(a), Tail(b))

RECURSIVE InsertPath(_, _)
InsertPath(sorted, x) ==
    IF sorted = <<>> THEN <<x>>
    ELSE IF PathLess(x, Head(sorted)) THEN <<x>> \o sorted
    ELSE <<Head(sorted)>> \o InsertPath(Tail(sorted), x)

\* links.sort()
RECURSIVE SortPaths(_)
SortPaths(links) ==
    IF links = <<>> THEN <<>>
    ELSE InsertPath(SortPaths(SubSeq(links, 1, Len(links) - 1)), links[Len(links)])

\* One line add_generation writes that opens or closes a block: its kind,
\* the label of a menuentry as the parts it is made of, the specialisation
\* a menuentry boots (None for the generation itself)
MenuLine(kind, label, link) == [kind |-> kind, label |-> label, link |-> link]

\* add_generation(name, name_suffix, path, options, current): the error of
\* read_dir when specialisation/ is absent; else the sub-menu line when the
\* generation is not current and has specialisations, the entry of the
\* generation, named with " - Default" when it has specialisations, one
\* entry per specialisation in the sorted order, and the closing line
AddGenerationText(dir, current) ==
    IF dir = None THEN [ok |-> FALSE, err |-> "Io"]
    ELSE LET links == SortPaths(Unwrap(dir))
             wrapped == ~current /\ links # <<>>
             name == <<"name">> \o (IF links # <<>> THEN <<" - Default">> ELSE <<>>)
                     \o <<"name_suffix">>
         IN  Ok((IF wrapped THEN <<MenuLine("submenu", <<"> ", "name", "name_suffix">>, None)>>
                 ELSE <<>>)
                \o <<MenuLine("menuentry", name, None)>>
                \o [i \in DOMAIN links |->
                       MenuLine("menuentry", name \o <<" - ", "entry_name">>, Some(links[i]))]
                \o (IF wrapped THEN <<MenuLine("close", <<>>, None)>> ELSE <<>>))

CallAddGeneration(dir, current) ==
    [fn |-> "add_generation", dir |-> dir, current |-> current,
     returned |-> FALSE, result |-> Ok(<<>>)]

\* add_generation on the specialisation directory drawn
ApplyAddGeneration ==
    /\ call.fn = "add_generation"
    /\ ~call.returned
    /\ call' = [call EXCEPT !.returned = TRUE,
                            !.result = AddGenerationText(call.dir, call.current)]
    /\ UNCHANGED <<inputs, pc, staging, installing, log, prev, pre, env, disk>>

InitGeneration ==
    /\ call \in {CallAddGeneration(d, c) : d \in SpecDirs, c \in BOOLEAN}
    /\ Standing

NextGeneration == ApplyAddGeneration

SpecGeneration == InitGeneration /\ [][NextGeneration]_vars

\* ------------------------------------------------------------ the claims

\* The grub-install invocations of this run, in the order they were started
Installs == SelectSeq(log, LAMBDA e : e.prog \in {"grub-install-bios", "grub-install-efi"})

IsNotNodev(d) == d # "nodev"

\* The grub-install invocations a complete reinstall consists of, as
\* <<program, device>>: one per device that is not "nodev", in list order,
\* when there is a BIOS package, then one for EFI when there is an EFI package
ExpectedInstalls ==
    LET real == SelectSeq(config.devices, IsNotNodev)
    IN  (IF IsSome(config.grub)
         THEN [i \in 1..Len(real) |-> <<"grub-install-bios", real[i]>>]
         ELSE <<>>)
        \o (IF IsSome(config.grub_efi) THEN <<<<"grub-install-efi", "">>>> ELSE <<>>)

Saving == pc \in {"save", "save_write", "save_rename"}

\* The GRUB paths of the menu entries of a grub.cfg
RefsOf(cfg) ==
    UNION {{Unwrap(cfg.menu[i][f]) : f \in {k \in {"kernel", "initrd", "xen", "secrets"} :
                                              IsSome(cfg.menu[i][k])}} :
           i \in {j \in DOMAIN cfg.menu : "kernel" \in DOMAIN cfg.menu[j]}}

\* C1: in every state of a non-dry run, a crash or an error included,
\* grub.cfg holds what the run found or the whole menu buffer of the run,
\* never part of it, and a dry run leaves grub.cfg as it found it; the
\* content changes only by the rename of grub.cfg.tmp.
C1_GrubCfgAtomic ==
    \/ grub_cfg = pre.grub_cfg
    \/ /\ ~dry_run
       /\ grub_cfg.complete
       /\ grub_cfg.menu = inner
       /\ grub_cfg_tmp = NoFile
       /\ pc \notin {"font", "splash", "theme", "add_entry", "copy", "copy_write",
                     "copy_rename", "secrets", "secrets_rename", "emit",
                     "install", "write_temp", "write_temp_end", "prepare",
                     "os_prober", "rename"}

C1_Witness ==
    /\ pc = "remove_old_kernels"
    /\ grub_cfg # pre.grub_cfg
    /\ grub_cfg.complete
    /\ grub_cfg.menu = inner

\* C2: when kernels are copied, at the moment of the rename every path of
\* the new grub.cfg under <grub_boot>/kernels names a file that exists in
\* <boot_path>/kernels and that the run recorded in the copied-paths set.
C2_RefsExistAtRename ==
    (pc = "rename" /\ grub_store = None) =>
        \A r \in RefsOf(grub_cfg_tmp) :
            r.root = "boot" =>
                \E f \in kernels :
                    /\ r.rel = "kernels/" \o f.name
                    /\ f.whole
                    /\ f.name \in copied

\* C3: the run that follows a successful run with the same configuration
\* starts no grub-install.
C3_SecondRunClean ==
    prev = "done" => Installs = <<>>

\* C4: the state file differs from what the run found, or is being saved,
\* only when update reported dirty and every grub-install of a complete
\* reinstall was started and exited with status zero.
C4_StateOnlyAfterInstall ==
    (state_file # pre.state_file \/ state_tmp # NoStateFile \/ Saving) =>
        /\ ~dry_run
        /\ dirty
        /\ [i \in DOMAIN Installs |-> <<Installs[i].prog, Installs[i].dev>>]
              = ExpectedInstalls
        /\ \A i \in DOMAIN Installs : Installs[i].status = 0

C4_Witness ==
    /\ pc = "done"
    /\ state_file # pre.state_file
    /\ Len(Installs) = 2

\* C5: after a run that reinstalled and succeeded, the state file holds the
\* six lines of the parameters of that install.
C5_SavedEqualsDesired ==
    (pc = "done" /\ dirty) => state_file = SaveContent(Desired(config))

\* C6: update returns true exactly when name, version, EFI-mode string or
\* mount point differ or one of the two lists is not disjoint from the
\* recorded one, and it overwrites exactly the fields whose test fired.
C6_UpdateDecides ==
    call.fn = "update" /\ call.returned =>
        LET old == call.gs
            new == call.state
            want == Desired(call.c)
            fired == [name |-> want.name # old.name,
                      version |-> want.version # old.version,
                      efi |-> want.efi # old.efi,
                      efi_mount_point |-> want.efi_mount_point # old.efi_mount_point,
                      devices |-> SetOf(want.devices) \cap SetOf(old.devices) # {},
                      extra_grub_install_args |->
                          SetOf(want.extra_grub_install_args)
                              \cap SetOf(old.extra_grub_install_args) # {}]
        IN  /\ call.dirty <=> \E f \in DOMAIN fired : fired[f]
            /\ \A f \in DOMAIN fired :
                   new[f] = IF fired[f] THEN want[f] ELSE old[f]

C6_Witness ==
    /\ call.fn = "update"
    /\ call.returned
    /\ call.dirty
    /\ call.gs.version # call.c.full_version
    /\ call.state.version = call.c.full_version
    /\ call.state.devices = call.gs.devices
    /\ call.gs.devices # call.c.devices

\* The matrix the four optional settings stand for
ExpectedMatrix(c) ==
    CASE IsSome(c.grub) /\ IsSome(c.grub_efi)
            /\ IsSome(c.grub_target) /\ IsSome(c.grub_target_efi) -> "Both"
      [] IsSome(c.grub) /\ ~IsSome(c.grub_efi) -> "BiosOnly"
      [] ~IsSome(c.grub) /\ IsSome(c.grub_efi) /\ IsSome(c.grub_target_efi) -> "EfiOnly"
      [] ~IsSome(c.grub) /\ ~IsSome(c.grub_efi) -> "Neither"
      [] OTHER -> "Error"

\* C7: install deduces Both, BiosOnly, EfiOnly or Neither as the four
\* settings say, and any other combination is an error that ends the run
\* before any grub-install.
C7_DeduceMatrix ==
    efi_target.tag # "Unset" =>
        /\ efi_target.tag = ExpectedMatrix(config)
        /\ efi_target.tag = "Error" => (pc = "failed" /\ Installs = <<>>)
        /\ efi_target.tag = "Both" =>
               /\ efi_target.bios = config.grub
               /\ efi_target.efi = config.grub_efi
        /\ efi_target.tag = "BiosOnly" => efi_target.bios = config.grub
        /\ efi_target.tag = "EfiOnly" => efi_target.efi = config.grub_efi

C7_Witness ==
    /\ efi_target.tag = "Error"
    /\ IsSome(config.grub_efi)
    /\ ~IsSome(config.grub)
    /\ pc = "failed"

\* C8: in a BIOS-only configuration every BIOS grub-install carries
\* --target=<grub_target> when grub_target is set, and no --target argument
\* when it is not.
C8_BiosTargetPassed ==
    (IsSome(config.grub) /\ ~IsSome(config.grub_efi)) =>
        \A i \in DOMAIN log :
            log[i].prog = "grub-install-bios" =>
                IF IsSome(config.grub_target)
                THEN ("--target=" \o Unwrap(config.grub_target)) \in SetOf(log[i].args)
                ELSE \A a \in SetOf(log[i].args) :
                        a \notin {"--target=" \o Unwrap(t) : t \in OptGrubTarget \ {None}}

\* C9: the grub-install invocations of a run are a prefix of the expected
\* ones (one per device that is not "nodev", in list order, then EFI); only
\* the last one started can have failed, and then the run has ended; a run
\* that reaches the save has started them all; a clean run starts none.
C9_InstallOrder ==
    LET n == Len(Installs)
    IN  /\ n <= Len(ExpectedInstalls)
        /\ \A i \in 1..n :
               /\ <<Installs[i].prog, Installs[i].dev>> = ExpectedInstalls[i]
               /\ i < n => Installs[i].status = 0
        /\ (n > 0 /\ Installs[n].status # 0) => pc \in {"failed", "crashed"}
        /\ (Saving \/ (pc = "done" /\ dirty)) => n = Len(ExpectedInstalls)
        /\ ~dirty => n = 0

C9_Witness ==
    /\ pc = "failed"
    /\ Len(ExpectedInstalls) = 3
    /\ Len(Installs) = 2
    /\ Installs[2].status # 0
    /\ config.devices[1] # config.devices[2]

\* C10: 30_os-prober is started if and only if use_os_prober is true, and
\* then from the EFI package when there is one, else from the BIOS package.
C10_OsProberIffEnabled ==
    LET probes == SelectSeq(log, LAMBDA e : e.prog = "os-prober")
    IN  /\ probes # <<>> => config.use_os_prober
        /\ (pc \in {"rename", "remove_old_kernels", "load"} /\ config.use_os_prober)
               => Len(probes) = 1
        /\ \A i \in DOMAIN probes :
               probes[i].pkg = IF IsSome(config.grub_efi) THEN config.grub_efi
                               ELSE config.grub

\* The names a run can stage under kernels/, and their temporaries
StagedNames ==
    {Mangle(Unwrap(g[p])) : g \in {Gen1, Gen2}, p \in {"kernel", "initrd"}}
    \cup {Mangle(Unwrap(Gen2.xen))}

IsTmp(name) == \E n \in StagedNames : name = TmpName(n)

HelperRuns == SelectSeq(log, LAMBDA e : e.prog \in {"shell", "os-prober"})

IsEntry(b) == "kernel" \in DOMAIN b

\* C11: once the shell of extra_prepare_config or 30_os-prober has exited
\* with a non-zero status the run has failed: grub.cfg and the state file
\* are as the run found them and no grub-install has been started.
C11_HelperFailureFatal ==
    (\E i \in DOMAIN HelperRuns : HelperRuns[i].status # 0) =>
        /\ pc = "failed"
        /\ grub_cfg = pre.grub_cfg
        /\ state_file = pre.state_file
        /\ Installs = <<>>

\* C12: a non-zero exit of the append-initrd-secrets hook ends the run with
\* an error exactly when the entry belongs to the default configuration;
\* for the entry of a generation of a profile, and for the entries of its
\* specialisations, the run goes on.
C12_HookFatalOnlyForCurrent ==
    [][(/\ pc = "secrets"
        /\ Len(log') = Len(log) + 1
        /\ log'[Len(log')].status # 0)
           => (pc' = "failed" <=> todo[ei].of_current)]_vars

\* C13: outside a dry run the secrets are moved into place, and the entry
\* carries a secrets path, only when the hook of that entry exited with
\* status zero.
C13_SecretsOnlyAfterSuccess ==
    (/\ ~dry_run
     /\ \/ pc = "secrets_rename"
        \/ /\ pc \in {"copy", "copy_write", "copy_rename", "emit"}
           /\ part \in {"secrets", "xen"}
           /\ IsSome(cur.secrets))
        => /\ log # <<>>
           /\ log[Len(log)].prog = "append-initrd-secrets"
           /\ log[Len(log)].status = 0

\* C14: every step of append_initrd_secrets, whether it returns a path,
\* nothing or an error, leaves the file-creation mask as it found it.
C14_UmaskRestored ==
    [][(pc \in {"secrets", "secrets_rename"}) => (mask' = mask)]_vars

C16_CleanupAfterRename ==
    [][/\ \A f \in kernels :
              ~Exists(kernels', f.name) =>
                  \/ pc = "remove_old_kernels"
                  \/ pc = "copy_rename" /\ f.name = TmpName(Mangle(PartPath))
       /\ pc = "remove_old_kernels" =>
              /\ grub_cfg_tmp = NoFile
              /\ grub_cfg.menu = inner
              /\ (pc' = "load" =>
                     {f.name : f \in kernels'} = {f.name : f \in kernels} \cap copied)
       /\ (pc' = "done" /\ ~dry_run) => \A f \in kernels' : f.name \in copied']_vars

C16_Witness ==
    /\ pc = "load"
    /\ grub_store = None
    /\ ~Exists(kernels, OldKernel)
    /\ Exists(kernels, Mangle(Unwrap(Gen1.kernel)))
    /\ Exists(kernels, Mangle(Unwrap(Gen2.xen)))

\* The menuentry a dry run writes for a call of add_entry
DryEntry(c) ==
    EntryOf(Some(KernelsDirPath(Mangle(Unwrap(c.gen.kernel)))),
            Some(KernelsDirPath(Mangle(Unwrap(c.gen.initrd)))),
            IF IsSome(c.gen.xen) THEN Some(KernelsDirPath(Mangle(Unwrap(c.gen.xen))))
            ELSE None,
            IF c.gen.hook
            THEN Some(GrubPath("boot", "kernels/" \o SecretsName(c.gen)))
            ELSE None)

\* C17: a dry run changes no file, starts no process and leaves the mask
\* alone; when it ends the buffer holds the font block and one menuentry
\* for every call of add_entry, with the secrets path where the generation
\* has an executable hook.
C17_DryRunTouchesNothing ==
    [][dry_run =>
          /\ disk' = disk
          /\ env' = env
          /\ log' = log
          /\ log = <<>>
          /\ pc' = "done" =>
                 /\ inner'[1].block = "font"
                 /\ SelectSeq(inner', IsEntry)
                        = [i \in DOMAIN todo |-> DryEntry(todo[i])]]_vars

C17_Witness ==
    /\ pc = "done"
    /\ dry_run
    /\ "theme" \in boot_misc
    /\ IsSome(config.theme)
    /\ IsSome(config.splash_image)
    /\ Len(todo) = 3
    /\ todo[1].gen.hook
    /\ IsSome(inner[Len(inner)].secrets)

\* The files that are numbered links of the profile system
SystemLinks ==
    {LinkFile(SystemName, <<"5">>), LinkFile(SystemName, <<"0", "5">>),
     LinkFile(SystemName, <<"1", "2">>)}

\* C18 as stated: the generations emitted for a profile are in strictly
\* decreasing generation number, at most configuration_limit of them, and
\* all of them numbered links of that profile.
C18_StrictlyDecreasing ==
    (call.fn = "add_profile" /\ call.returned) =>
        /\ \A i, j \in DOMAIN call.emitted :
               i < j => call.emitted[i].gen > call.emitted[j].gen
        /\ Len(call.emitted) <= call.limit
        /\ \A i \in DOMAIN call.emitted : call.emitted[i].file \in SystemLinks

\* C18 as amended: the generation numbers emitted never increase, and
\* decrease strictly from one link to the next unless the two names spell
\* the same number; at most configuration_limit links are emitted, each
\* once, all of them numbered links of the profile that are in the listing.
C18_NonIncreasing ==
    (call.fn = "add_profile" /\ call.returned) =>
        /\ \A i, j \in DOMAIN call.emitted :
               i < j =>
                  /\ call.emitted[i].gen >= call.emitted[j].gen
                  /\ call.emitted[i].file # call.emitted[j].file
                  /\ (call.emitted[i].gen = call.emitted[j].gen) =>
                         {call.emitted[i].file, call.emitted[j].file}
                            = {LinkFile(SystemName, <<"5">>),
                               LinkFile(SystemName, <<"0", "5">>)}
        /\ Len(call.emitted) <= call.limit
        /\ \A i \in DOMAIN call.emitted :
               /\ call.emitted[i].file \in SystemLinks
               /\ call.emitted[i].file \in SetOf(call.listing)
               /\ call.emitted[i].gen =
                      (IF call.emitted[i].file = LinkFile(SystemName, <<"1", "2">>)
                       THEN 12 ELSE 5)

C18_Witness ==
    /\ call.fn = "add_profile"
    /\ call.returned
    /\ call.limit = 2
    /\ Len(call.listing) = 3
    /\ SetOf(call.listing) = SystemLinks
    /\ call.listing[1] = LinkFile(SystemName, <<"5">>)
    /\ Len(call.emitted) = 2
    /\ call.emitted[1].gen = 12
    /\ call.emitted[2].gen = 5

\* The sources of a user in the order of precedence, each with the kind of
\* password it gives and whether it names a file
SourceOrder ==
    <<[key |-> "hashedPasswordFile", kind |-> "Hashed", file |-> TRUE],
      [key |-> "hashedPassword", kind |-> "Hashed", file |-> FALSE],
      [key |-> "passwordFile", kind |-> "Plain", file |-> TRUE],
      [key |-> "password", kind |-> "Plain", file |-> FALSE]>>

\* A source that is given and not the empty text
NonEmptySource(u, i) ==
    /\ IsSome(u[SourceOrder[i].key])
    /\ Unwrap(u[SourceOrder[i].key]) # <<>>

\* The prefix of a GRUB PBKDF2 hash
Pbkdf2Prefix == GrubP \o <<"b">> \o Kdf2 \o <<".">>

\* C19: for a single user the password comes from the first source, in the
\* order hashedPasswordFile, hashedPassword, passwordFile, password, that
\* is given and not empty; without such a source the user is rejected with
\* PasswordNotFound. An error other than that concerns the chosen source.
C19_FirstNonEmptySource ==
    (call.fn = "users" /\ call.returned /\ Len(call.users) = 1) =>
        LET u == call.users[1]
            given == {i \in DOMAIN SourceOrder : NonEmptySource(u, i)}
            r == call.result
        IN  IF given = {}
            THEN ~r.ok /\ r.err = "PasswordNotFound" /\ r.user = u.name
            ELSE LET i == CHOOSE k \in given : \A j \in given : k <= j
                     src == SourceOrder[i]
                     text == IF src.file THEN ReadToString(Unwrap(u[src.key]))
                             ELSE u[src.key]
                 IN  IF r.ok
                     THEN /\ text # None
                          /\ r.value = <<[user |-> u.name,
                                          password |-> [kind |-> src.kind,
                                                        text |-> Unwrap(text)]]>>
                     ELSE /\ r.user = u.name
                          /\ r.err = "Io" => (src.file /\ text = None)
                          /\ r.err = "InvalidHashedPassword" =>
                                 (src.kind = "Hashed" /\ r.hash = Unwrap(text))
                          /\ r.err # "PasswordNotFound"

\* C20: a user whose only source is hashedPassword is accepted, as
\* Password::Hashed, exactly when the hash starts with grub.pbkdf2. and is
\* rejected with InvalidHashedPassword naming the user otherwise; a user
\* whose only source is password is accepted with that text as it is.
C20_HashPrefixDecides ==
    (call.fn = "users" /\ call.returned /\ Len(call.users) = 1) =>
        LET u == call.users[1]
            r == call.result
        IN  /\ (/\ u.hashedPasswordFile = None /\ u.passwordFile = None
                /\ u.password = None /\ IsSome(u.hashedPassword)
                /\ Unwrap(u.hashedPassword) # <<>>) =>
                   IF StartsWith(Unwrap(u.hashedPassword), Pbkdf2Prefix)
                   THEN r = Ok(<<[user |-> u.name,
                                  password |-> Hashed(Unwrap(u.hashedPassword))]>>)
                   ELSE r = Err("InvalidHashedPassword", u.name, Unwrap(u.hashedPassword))
            /\ (/\ u.hashedPasswordFile = None /\ u.passwordFile = None
                /\ u.hashedPassword = None /\ IsSome(u.password)
                /\ Unwrap(u.password) # <<>>) =>
                   r = Ok(<<[user |-> u.name, password |-> Plain(Unwrap(u.password))]>>)

\* C21: every optional string or path field decodes to None when its key is
\* absent and when its value is the empty string, and to Some(text) for any
\* other string; none of these is an error.
C21_OptionalFieldDecoding ==
    (call.fn = "config" /\ call.returned
     /\ \A k \in SetOf(OptionKeys) : call.attrs[k] \in StringNodes) =>
        /\ call.result.ok
        /\ \A k \in SetOf(OptionKeys) :
              call.result.value[k] =
                  IF call.attrs[k] = None \/ Unwrap(call.attrs[k]).value = ""
                  THEN None
                  ELSE Some(Unwrap(call.attrs[k]).value)

\* C22: GrubState::load always returns a record: the empty record for a
\* missing file, a file of fewer than five lines and a file whose sixth line
\* is no JSON object; for a file of five lines, or with an empty sixth line,
\* the record of its five fields with no extra_grub_install_args.
C22_LoadNeverFails ==
    (call.fn = "load" /\ call.returned) =>
        LET f == call.file
        IN  /\ call.state \in
                  {GrubStateOf(n, v, e, d, m, a) :
                      n \in {"", f.name}, v \in {"", f.version}, e \in {"", f.efi},
                      d \in {<<>>, f.devices}, m \in {"", f.efi_mount_point},
                      a \in {<<>>, f.json.args}}
            /\ (f.kind \in {"missing", "short"} \/ f.json.kind = "invalid")
                   => call.state = DefaultGrubState
            /\ (f.kind = "record" /\ f.json.kind \in {"none", "empty"})
                   => call.state = GrubStateOf(f.name, f.version, f.efi, f.devices,
                                               f.efi_mount_point, <<>>)

\* A file of exactly five lines has been loaded into a record of its fields
C22_Witness ==
    /\ call.fn = "load" /\ call.returned
    /\ call.file.kind = "record" /\ call.file.json.kind = "none"
    /\ call.file.name = "NixOS"
    /\ call.state.name = "NixOS" /\ call.state.extra_grub_install_args = <<>>

\* C29: a record that is saved and loaded again comes back with the same six
\* fields, whatever its lists of devices and of arguments, the empty lists
\* included.
C29_SaveLoadRoundTrip ==
    (call.fn = "save" /\ call.returned) => call.state = call.gs

\* C23: the state file changes only in the rename of save, and at every
\* point of a run, after a crash and after a failed write too, it holds in
\* full either the record the run found or the six lines of the new record.
C23_StateFileAtomic ==
    /\ state_file \in {pre.state_file, SaveContent(grub_state)}
    /\ state_file # pre.state_file => pc = "done"

\* C24: two runs over the same configuration, profiles and theme produce the
\* same menu text: what a run writes does not depend on the order in which
\* the set of theme modules is iterated.
C24_SameInputsSameMenu ==
    (call.fn = "theme" /\ call.returned) => call.first = call.second

\* The runs of the grub-install of the EFI package
EfiInstalls == SelectSeq(log, LAMBDA i : i.prog = "grub-install-efi")

\* C25 as stated: the grub-install of install_efi carries --no-nvram exactly
\* when can_touch_efi_variables is false, --removable whenever
\* efi_install_as_removable is true, --force exactly when force_install is
\* true, and --bootloader-id always.
C25_RemovableWheneverSet ==
    \A i \in DOMAIN EfiInstalls :
        LET args == SetOf(EfiInstalls[i].args)
        IN  /\ "--no-nvram" \in args <=> ~config.can_touch_efi_variables
            /\ config.efi_install_as_removable => "--removable" \in args
            /\ "--force" \in args <=> config.force_install
            /\ ("--bootloader-id=" \o config.bootloader_id) \in args

\* C25, amended: the grub-install of install_efi carries --no-nvram exactly
\* when can_touch_efi_variables is false, --removable exactly when
\* efi_install_as_removable is true and can_touch_efi_variables is false,
\* --force exactly when force_install is true, and --bootloader-id always.
C25_RemovableOnlyWithoutNvram ==
    \A i \in DOMAIN EfiInstalls :
        LET args == SetOf(EfiInstalls[i].args)
        IN  /\ "--no-nvram" \in args <=> ~config.can_touch_efi_variables
            /\ "--removable" \in args <=>
                   (config.efi_install_as_removable /\ ~config.can_touch_efi_variables)
            /\ "--force" \in args <=> config.force_install
            /\ ("--bootloader-id=" \o config.bootloader_id) \in args

\* The EFI install has run as removable, forced, without touching the variables
C25_Witness ==
    /\ Len(EfiInstalls) = 1
    /\ config.efi_install_as_removable /\ ~config.can_touch_efi_variables
    /\ config.force_install
    /\ {"--removable", "--no-nvram", "--force"} \subseteq SetOf(EfiInstalls[1].args)

\* C26: the loadfont directive names the file the font was copied to:
\* converted-font.pf2 under the GRUB path of the boot partition, which
\* outside a dry run is a file of <boot_path>.
C26_LoadfontNamesCopy ==
    \A i \in DOMAIN inner :
        ("block" \in DOMAIN inner[i] /\ inner[i].block = "font") =>
            /\ inner[i].path = GrubPath("boot", "converted-font.pf2")
            /\ ~dry_run => inner[i].path.rel \in boot_misc

\* C27: without a theme in the configuration append_theme leaves the files
\* of <boot_path>, an existing theme directory included, as they are and
\* writes nothing to the menu; the theme directory is removed only by a run
\* that has a theme and is not a dry run.
C27_NoThemeNoChange ==
    [][(pc = "theme") =>
          /\ (config.theme = None) => (boot_misc' = boot_misc /\ inner' = inner)
          /\ ("theme" \in boot_misc /\ "theme" \notin boot_misc')
                 => (config.theme # None /\ ~dry_run)]_vars

\* The lines among the first n of a menu text that open a block, and those
\* that close one
OpenedUpTo(lines, n) == Cardinality({i \in 1..n : lines[i] \in {OpenSubmenu, OpenEntry}})
ClosedUpTo(lines, n) == Cardinality({i \in 1..n : lines[i] = CloseBlock})

\* C28: every block that entries opens is closed: each submenu line of
\* add_profile and of add_generation and each menuentry line of add_entry
\* is followed by its own closing brace, so that when entries has returned
\* no block is open and no brace closes a block that was not opened.
C28_BlocksClosed ==
    (call.fn = "entries" /\ call.returned) =>
        /\ ClosedUpTo(call.lines, Len(call.lines)) = OpenedUpTo(call.lines, Len(call.lines))
        /\ \A n \in DOMAIN call.lines :
              ClosedUpTo(call.lines, n) <= OpenedUpTo(call.lines, n)

\* C30: with neither a BIOS nor an EFI package, a run that is not a dry run
\* ends normally whether use_os_prober is set or not: it never aborts in a
\* panic, it starts no grub-install, and once it is past the rename grub.cfg
\* is the new menu in full and, after the cleanup, every file of kernels/ is
\* one the run kept.
C30_NeitherTerminates ==
    (Deduce(config).tag = "Neither" /\ ~dry_run) =>
        /\ pc # "panicked"
        /\ Installs = <<>>
        /\ pc = "done" =>
              /\ grub_cfg.complete
              /\ \A f \in kernels : f.name \in copied

\* C31: in a run that stages nothing under <boot_path>/kernels (there is a
\* store pair and no generation has a secrets hook) and finds no such
\* directory, the cleanup changes nothing and the run goes on to the
\* reinstall decision: it does not fail, after grub.cfg was published,
\* because the directory is absent.
C31_CleanupWithoutKernelsDir ==
    [][(/\ pc = "remove_old_kernels"
        /\ IsSome(grub_store)
        /\ \A i \in DOMAIN todo : ~todo[i].gen.hook
        /\ KernelsDir \notin boot_misc) =>
          (/\ pc' \in {"load", "crashed"}
           /\ kernels' = kernels
           /\ boot_misc' = boot_misc)]_vars

\* The menuentry lines of a text
EntryLines(lines) == SelectSeq(lines, LAMBDA l : l.kind = "menuentry")

\* C32: a generation without specialisations, its specialisation directory
\* being empty or absent, is written without error as one menuentry that is
\* not named " - Default" and is in no sub-menu; a generation with
\* specialisations is named " - Default" and is followed by one entry for
\* each specialisation, in the lexicographic order of their paths.
C32_SpecialisationsOptional ==
    (call.fn = "add_generation" /\ call.returned) =>
        LET r == call.result
            listed == IF call.dir = None THEN {} ELSE SetOf(Unwrap(call.dir))
        IN  /\ r.ok
            /\ LET entries == EntryLines(r.value)
               IN  /\ Len(entries) = 1 + Cardinality(listed)
                   /\ entries[1].link = None
                   /\ " - Default" \in SetOf(entries[1].label) <=> listed # {}
                   /\ listed = {} => r.value = entries
                   /\ {Unwrap(entries[i].link) : i \in 2..Len(entries)} = listed
                   /\ \A i, j \in 2..Len(entries) :
                          i < j => PathLess(Unwrap(entries[i].link), Unwrap(entries[j].link))

====
